---- MODULE Spec2Model ----
(***************************************************************************)
(* Model of the Spring Boot CRUD boilerplate generator                     *)
(* (agents/skills/spring-boot-crud-patterns/scripts/                       *)
(* generate_crud_boilerplate.py) and of the Fineract generators            *)
(* (agents/skills/fineract-development/scripts).                           *)
(*                                                                         *)
(* Representation of Python values:                                        *)
(*   - a str is a sequence of lexemes.  A lexeme is a TLA+ string: either  *)
(*     one character ("P", "_", "$") or a literal chunk of the source      *)
(*     ("Unsupported ", "    @JoinColumn(name = \"").  Identifiers that    *)
(*     the code inspects character by character (entity, field and         *)
(*     relationship names) are sequences of one-character lexemes.         *)
(*   - None (an absent key, dict.get's default) is the value None below;   *)
(*     the empty str is << >>.  Both are falsy, as in Python.              *)
(*   - a dict with a fixed key set is a record; a list is a sequence.      *)
(***************************************************************************)
EXTENDS Integers, Sequences, FiniteSets, TLC

VARIABLES
    pc,            \* position of main(): the step that runs next
    spec,          \* the loaded entity spec (load_spec's result)
    lombok,        \* args.lombok
    templatesDir,  \* the templates directory on disk: NoDir, or the set of *.tpl files in it
    placeholders,  \* the placeholders dict built by main(), NoPlaceholders before
    nextArtifact,  \* index into the render/write sequence of main()
    rendered,      \* template names rendered so far by _render
    written,       \* files written so far by write_file, in order
    err,           \* the error that ended the run, NoErr while none
    fnIn,          \* argument of the helper function under test
    fnOut          \* its result; in a rerun of main(), what the first run produced

vars == << pc, spec, lombok, templatesDir, placeholders,
           nextArtifact, rendered, written, err, fnIn, fnOut >>

(***************************************************************************)
(* Python values                                                           *)
(***************************************************************************)
None == << "<None>" >>

\* the bool values of a JSON document
PyTrue == << "True" >>
PyFalse == << "False" >>

\* bool(v) for the values a spec holds
Truthy(v) == v \notin { None, << >>, PyFalse }

\* an exception a function raised, as the value of the `raised` of its result
Raise(exc, msg) == << exc, ": " >> \o msg

RECURSIVE Join(_, _)
\* sep.join(parts)
Join(sep, parts) ==
    IF parts = << >> THEN << >>
    ELSE IF Len(parts) = 1 THEN parts[1]
    ELSE parts[1] \o sep \o Join(sep, Tail(parts))

\* the index of the first occurrence of x in sequence s (x occurs in s)
IndexOf(s, x) == CHOOSE i \in 1..Len(s) : s[i] = x /\ \A j \in 1..(i - 1) : s[j] # x

(***************************************************************************)
(* Characters                                                              *)
(***************************************************************************)
UpperSeq == << "A", "B", "C", "D", "E", "F", "G", "H", "I", "J", "K", "L", "M",
               "N", "O", "P", "Q", "R", "S", "T", "U", "V", "W", "X", "Y", "Z" >>
LowerSeq == << "a", "b", "c", "d", "e", "f", "g", "h", "i", "j", "k", "l", "m",
               "n", "o", "p", "q", "r", "s", "t", "u", "v", "w", "x", "y", "z" >>
DigitSeq == << "0", "1", "2", "3", "4", "5", "6", "7", "8", "9" >>

Range(s) == { s[i] : i \in 1..Len(s) }

UpperChars == Range(UpperSeq)
LowerChars == Range(LowerSeq)
DigitChars == Range(DigitSeq)

\* str.lower() and str.upper() on one character
LowerChar(c) == IF c \in UpperChars THEN LowerSeq[IndexOf(UpperSeq, c)] ELSE c
UpperChar(c) == IF c \in LowerChars THEN UpperSeq[IndexOf(LowerSeq, c)] ELSE c

LowerStr(s) == [i \in 1..Len(s) |-> LowerChar(s[i])]
UpperStr(s) == [i \in 1..Len(s) |-> UpperChar(s[i])]

(***************************************************************************)
(* Naming helpers                                                          *)
(***************************************************************************)
RECURSIVE LowerRunEnd(_, _)
\* the index of the last character of the maximal run [a-z]* that starts at i
\* (i - 1 when the run is empty)
LowerRunEnd(s, i) ==
    IF i <= Len(s) /\ s[i] \in LowerChars THEN LowerRunEnd(s, i + 1) ELSE i - 1

RECURSIVE SubPass1(_, _)
\* re.sub(r"(.)([A-Z][a-z]+)", r"\1_\2", s) from position i: leftmost,
\* non-overlapping matches; "." matches anything but a newline
SubPass1(s, i) ==
    IF i > Len(s) THEN << >>
    ELSE IF /\ s[i] # "\n"
            /\ i + 2 <= Len(s)
            /\ s[i + 1] \in UpperChars
            /\ s[i + 2] \in LowerChars
         THEN LET e == LowerRunEnd(s, i + 2)
              IN  << s[i], "_" >> \o SubSeq(s, i + 1, e) \o SubPass1(s, e + 1)
         ELSE << s[i] >> \o SubPass1(s, i + 1)

RECURSIVE SubPass2_LettersOnly(_, _)
\* the second pass with [a-z] in place of [a-z0-9]
SubPass2_LettersOnly(s, i) ==
    IF i > Len(s) THEN << >>
    ELSE IF /\ i + 1 <= Len(s)
            /\ s[i] \in LowerChars
            /\ s[i + 1] \in UpperChars
         THEN << s[i], "_", s[i + 1] >> \o SubPass2_LettersOnly(s, i + 2)
         ELSE << s[i] >> \o SubPass2_LettersOnly(s, i + 1)

RECURSIVE SubPass2(_, _)
\* re.sub(r"([a-z0-9])([A-Z])", r"\1_\2", s) from position i
SubPass2(s, i) ==
    IF i > Len(s) THEN << >>
    ELSE IF /\ i + 1 <= Len(s)
            /\ s[i] \in LowerChars \cup DigitChars
            /\ s[i + 1] \in UpperChars
         THEN << s[i], "_", s[i + 1] >> \o SubPass2(s, i + 2)
         ELSE << s[i] >> \o SubPass2(s, i + 1)

camel_to_snake(name) == LowerStr(SubPass2(SubPass1(name, 1), 1))

lower_first(s) == IF s = << >> THEN s ELSE << LowerChar(s[1]) >> \o Tail(s)

cap(s) == IF s = << >> THEN s ELSE << UpperChar(s[1]) >> \o Tail(s)

(***************************************************************************)
(* Order of str values, as sorted() compares them                          *)
(***************************************************************************)
\* the characters of a lexeme: a chunk is spelled out, a one-character
\* lexeme is itself
Spell(lex) ==
    CASE lex = "import " -> << "i", "m", "p", "o", "r", "t", " " >>
      [] lex = "java.math." -> << "j", "a", "v", "a", ".", "m", "a", "t", "h", "." >>
      [] lex = "java.time." -> << "j", "a", "v", "a", ".", "t", "i", "m", "e", "." >>
      [] lex = "java.util." -> << "j", "a", "v", "a", ".", "u", "t", "i", "l", "." >>
      [] lex = "BigDecimal" -> << "B", "i", "g", "D", "e", "c", "i", "m", "a", "l" >>
      [] lex = "LocalDate" -> << "L", "o", "c", "a", "l", "D", "a", "t", "e" >>
      [] lex = "LocalDateTime" -> << "L", "o", "c", "a", "l", "D", "a", "t", "e", "T", "i", "m", "e" >>
      [] lex = "Set" -> << "S", "e", "t" >>
      [] lex = "List" -> << "L", "i", "s", "t" >>
      [] lex = "Map" -> << "M", "a", "p" >>
      [] lex = "UUID" -> << "U", "U", "I", "D" >>
      [] lex = "String" -> << "S", "t", "r", "i", "n", "g" >>
      [] lex = "Long" -> << "L", "o", "n", "g" >>
      [] lex = "long" -> << "l", "o", "n", "g" >>
      [] lex = "Integer" -> << "I", "n", "t", "e", "g", "e", "r" >>
      [] lex = "int" -> << "i", "n", "t" >>
      [] lex = "boolean" -> << "b", "o", "o", "l", "e", "a", "n" >>
      [] lex = "Boolean" -> << "B", "o", "o", "l", "e", "a", "n" >>
      [] lex = "Money" -> << "M", "o", "n", "e", "y" >>
      [] OTHER -> << lex >>

RECURSIVE Chars(_)
\* the characters of a str
Chars(s) == IF s = << >> THEN << >> ELSE Spell(s[1]) \o Chars(Tail(s))

\* the characters of the generated texts in code point order
AsciiSeq == << " ", "." >> \o DigitSeq \o << ";" >> \o UpperSeq \o << "_" >> \o LowerSeq

\* ord(c)
Ord(c) == IndexOf(AsciiSeq, c)

RECURSIVE CharsLess(_, _)
\* a < b for two str, given as their characters
CharsLess(a, b) ==
    IF b = << >> THEN FALSE
    ELSE IF a = << >> THEN TRUE
    ELSE IF a[1] = b[1] THEN CharsLess(Tail(a), Tail(b))
    ELSE Ord(a[1]) < Ord(b[1])

\* a < b for two str
StrLess(a, b) == CharsLess(Chars(a), Chars(b))

RECURSIVE InsertSorted(_, _)
InsertSorted(sorted, x) ==
    IF sorted = << >> THEN << x >>
    ELSE IF StrLess(x, sorted[1]) THEN << x >> \o sorted
    ELSE << sorted[1] >> \o InsertSorted(Tail(sorted), x)

RECURSIVE Sorted(_)
\* sorted(strs) for a list of str
Sorted(strs) ==
    IF strs = << >> THEN << >>
    ELSE InsertSorted(Sorted(SubSeq(strs, 1, Len(strs) - 1)), strs[Len(strs)])

(***************************************************************************)
(* Spec validation (main, lines 582-596)                                   *)
(***************************************************************************)
IdentChars == UpperChars \cup LowerChars \cup DigitChars \cup { "_" }

\* re.match(r"^[A-Z][A-Za-z0-9_]*$", entity): "$" matches at the end of the
\* string and also just before a newline that ends the string
EntityPatternMatches(entity) ==
    /\ Len(entity) >= 1
    /\ entity[1] \in UpperChars
    /\ \/ \A i \in 2..Len(entity) : entity[i] \in IdentChars
       \/ /\ Len(entity) >= 2
          /\ entity[Len(entity)] = "\n"
          /\ \A i \in 2..(Len(entity) - 1) : entity[i] \in IdentChars

SUPPORTED_SIMPLE_TYPES ==
    { "String", "Long", "Integer", "Boolean", "BigDecimal", "UUID", "LocalDate",
      "LocalDateTime" }

\* spec.get("id") or {"name": "id", "type": "Long", "generated": True}
DefaultIdSpec == [name |-> << "i", "d" >>, type |-> "Long", generated |-> PyTrue]
\* a spec document with no "id" key
NoId == [name |-> None, type |-> "<None>", generated |-> None]
IdSpecOf(s) == IF s.id = NoId THEN DefaultIdSpec ELSE s.id

NoErr == [exc |-> "none", msg |-> << >>]
SystemExit(msg) == [exc |-> "SystemExit", msg |-> msg]
OSError(msg) == [exc |-> "OSError", msg |-> msg]

EntityNameMessage == << "Spec 'entity' must be a PascalCase identifier, e.g., 'Product'" >>
UnsupportedIdMessage(idSpec) == << "Unsupported ", "i", "d", " type: ", idSpec.type >>
UnsupportedFieldMessage(f) == << "Unsupported field type: " >> \o f.name \o << " -> ", f.type >>

\* the first field, in declaration order, whose type is unsupported (0 when none)
FirstBadField(fields) ==
    IF \E i \in 1..Len(fields) : fields[i].type \notin SUPPORTED_SIMPLE_TYPES
    THEN CHOOSE i \in 1..Len(fields) :
            /\ fields[i].type \notin SUPPORTED_SIMPLE_TYPES
            /\ \A j \in 1..(i - 1) : fields[j].type \in SUPPORTED_SIMPLE_TYPES
    ELSE 0

\* the checks in another order: the id type before the entity name
ValidationError_IdFirst(s) ==
    IF IdSpecOf(s).type \notin SUPPORTED_SIMPLE_TYPES
    THEN SystemExit(UnsupportedIdMessage(IdSpecOf(s)))
    ELSE IF ~Truthy(s.entity) \/ ~EntityPatternMatches(s.entity)
    THEN SystemExit(EntityNameMessage)
    ELSE IF FirstBadField(s.fields) # 0
    THEN SystemExit(UnsupportedFieldMessage(s.fields[FirstBadField(s.fields)]))
    ELSE NoErr

\* the checks of main() in their order; NoErr when the spec passes them all
ValidationError(s) ==
    IF ~Truthy(s.entity) \/ ~EntityPatternMatches(s.entity)
    THEN SystemExit(EntityNameMessage)
    ELSE IF IdSpecOf(s).type \notin SUPPORTED_SIMPLE_TYPES
    THEN SystemExit(UnsupportedIdMessage(IdSpecOf(s)))
    ELSE IF FirstBadField(s.fields) # 0
    THEN SystemExit(UnsupportedFieldMessage(s.fields[FirstBadField(s.fields)]))
    ELSE NoErr

(***************************************************************************)
(* Template rendering (render_template_file, main._render)                 *)
(*                                                                         *)
(* In a template text every placeholder key and every other word is one    *)
(* lexeme; "$", "{", "}" and white space are lexemes of their own.  An     *)
(* identifier of string.Template is a maximal run of word lexemes, so      *)
(* << "$", "get_constructor", "X" >> is the text $get_constructorX.        *)
(***************************************************************************)
ConstructorKeys ==
    << "controller_constructor", "adapter_constructor", "create_constructor",
       "update_constructor", "get_constructor", "list_constructor",
       "delete_constructor", "domain_service_constructor" >>

\* the argument-forwarding placeholders (main, lines 695-704)
ForwardingKeys ==
    << "adapter_to_entity_args", "adapter_to_domain_args", "request_all_args",
       "response_from_agg_args", "list_map_response_args", "update_create_args",
       "mapper_create_args" >>

PlaceholderKeys ==
    { "entity", "Entity", "EntityRequest", "EntityResponse", "entity_lower", "package",
      "Package", "table_name", "base_path", "id_type", "id_name", "id_name_lower",
      "id_generated", "dto_response_components", "dto_request_components",
      "extra_imports", "domain_getters", "jpa_getters_setters", "all_names_csv",
      "jpa_fields_decls", "create_id_arg" }
    \cup Range(ConstructorKeys) \cup Range(ForwardingKeys)

\* words that may follow "$" in a template without being a placeholder key
OtherWords == { "X", "unknown" }

IdentStartLex == UpperChars \cup LowerChars \cup { "_" } \cup PlaceholderKeys \cup OtherWords
IdentContLex == IdentStartLex \cup DigitChars
WhitespaceLex == { " ", "\n", "\t", "\r" }

RECURSIVE IdentRunEnd(_, _)
\* the index of the last lexeme of the maximal run [_a-z0-9]* that starts at i
IdentRunEnd(t, i) ==
    IF i <= Len(t) /\ t[i] \in IdentContLex THEN IdentRunEnd(t, i + 1) ELSE i - 1

\* mapping[named] of safe_substitute: the identifier is a key of the mapping
HasKey(map, ident) == Len(ident) = 1 /\ ident[1] \in DOMAIN map

RECURSIVE SafeSubstituteFrom(_, _, _)
\* Template(t).safe_substitute(map) from position i: one left-to-right pass of
\* the pattern \$(?:(\$)|([_a-z][_a-z0-9]*)|{([_a-z][_a-z0-9]*)}|())
SafeSubstituteFrom(t, map, i) ==
    IF i > Len(t) THEN << >>
    ELSE IF t[i] # "$" THEN << t[i] >> \o SafeSubstituteFrom(t, map, i + 1)
    ELSE IF i + 1 <= Len(t) /\ t[i + 1] = "$"
         THEN << "$" >> \o SafeSubstituteFrom(t, map, i + 2)
    ELSE IF i + 1 <= Len(t) /\ t[i + 1] \in IdentStartLex
         THEN LET e == IdentRunEnd(t, i + 1)
                  ident == SubSeq(t, i + 1, e)
              IN  (IF HasKey(map, ident) THEN map[ident[1]] ELSE SubSeq(t, i, e))
                  \o SafeSubstituteFrom(t, map, e + 1)
    ELSE IF /\ i + 2 <= Len(t)
            /\ t[i + 1] = "{"
            /\ t[i + 2] \in IdentStartLex
            /\ IdentRunEnd(t, i + 2) + 1 <= Len(t)
            /\ t[IdentRunEnd(t, i + 2) + 1] = "}"
         THEN LET e == IdentRunEnd(t, i + 2)
                  ident == SubSeq(t, i + 2, e)
              IN  (IF HasKey(map, ident) THEN map[ident[1]] ELSE SubSeq(t, i, e + 1))
                  \o SafeSubstituteFrom(t, map, e + 2)
    ELSE << "$" >> \o SafeSubstituteFrom(t, map, i + 1)

safe_substitute(t, map) == SafeSubstituteFrom(t, map, 1)

RECURSIVE RStripLen(_, _)
RStripLen(t, n) == IF n >= 1 /\ t[n] \in WhitespaceLex THEN RStripLen(t, n - 1) ELSE n

\* str.rstrip()
rstrip(t) == SubSeq(t, 1, RStripLen(t, Len(t)))

RECURSIVE ReplaceFrom(_, _, _, _)
\* c.replace("$" + key, new) from position i: every occurrence of the
\* characters "$" + key, whatever follows them
ReplaceFrom(c, key, new, i) ==
    IF i > Len(c) THEN << >>
    ELSE IF c[i] = "$" /\ i + 1 <= Len(c) /\ c[i + 1] = key
         THEN new \o ReplaceFrom(c, key, new, i + 2)
         ELSE << c[i] >> \o ReplaceFrom(c, key, new, i + 1)

RECURSIVE ReplaceConstructors(_, _, _)
\* the chain of .replace calls of _render, from the k-th key on
ReplaceConstructors(c, map, k) ==
    IF k > Len(ConstructorKeys) THEN c
    ELSE LET key == ConstructorKeys[k]
             new == IF key \in DOMAIN map THEN map[key] ELSE << >>
         IN  ReplaceConstructors(ReplaceFrom(c, key, new, 1), map, k + 1)

\* render_template_file on a template that exists, the try branch (line 157)
render_template_file(text, map) == rstrip(safe_substitute(text, map)) \o << "\n" >>

\* main._render on a template that exists
Render(text, map) == ReplaceConstructors(render_template_file(text, map), map, 1)

\* render_template_file, lines 152-160: None when the template cannot be
\* loaded or the substitution raised (the except branch), else the text
RenderedOrNone(text, map, raised) ==
    IF text = None \/ raised THEN None ELSE render_template_file(text, map)

\* main._render, line 797: the test that makes the run stop
RenderFailed_Never(c) == FALSE

RenderFailed(c) == c = None

\* main._render, lines 798-806, on what render_template_file returned
Rendered(c, map) == ReplaceConstructors(c, map, 1)

\* the content write_file puts on disk
FileContent(content) == rstrip(content) \o << "\n" >>

(***************************************************************************)
(* The artifacts of a run (main, lines 604-653 and 808-859)                *)
(***************************************************************************)
\* one entry per _render/write_file pair of main(), in the order main() runs
\* them; the path is java_root/<layer>/<prefix><entity><suffix>
Artifacts ==
    << [tpl |-> "DomainModel.java.tpl", layer |-> "domain/model",
        prefix |-> << >>, suffix |-> << ".java" >>],
       [tpl |-> "DomainRepository.java.tpl", layer |-> "domain/repository",
        prefix |-> << >>, suffix |-> << "Repository.java" >>],
       [tpl |-> "DomainService.java.tpl", layer |-> "domain/service",
        prefix |-> << >>, suffix |-> << "Service.java" >>],
       [tpl |-> "JpaEntity.java.tpl", layer |-> "infrastructure/persistence",
        prefix |-> << >>, suffix |-> << "Entity.java" >>],
       [tpl |-> "SpringDataRepository.java.tpl", layer |-> "infrastructure/persistence",
        prefix |-> << >>, suffix |-> << "JpaRepository.java" >>],
       [tpl |-> "PersistenceAdapter.java.tpl", layer |-> "infrastructure/persistence",
        prefix |-> << >>, suffix |-> << "RepositoryAdapter.java" >>],
       [tpl |-> "CreateService.java.tpl", layer |-> "application/service",
        prefix |-> << "Create" >>, suffix |-> << "Service.java" >>],
       [tpl |-> "GetService.java.tpl", layer |-> "application/service",
        prefix |-> << "Get" >>, suffix |-> << "Service.java" >>],
       [tpl |-> "UpdateService.java.tpl", layer |-> "application/service",
        prefix |-> << "Update" >>, suffix |-> << "Service.java" >>],
       [tpl |-> "DeleteService.java.tpl", layer |-> "application/service",
        prefix |-> << "Delete" >>, suffix |-> << "Service.java" >>],
       [tpl |-> "ListService.java.tpl", layer |-> "application/service",
        prefix |-> << "List" >>, suffix |-> << "Service.java" >>],
       [tpl |-> "DtoRequest.java.tpl", layer |-> "presentation/dto",
        prefix |-> << >>, suffix |-> << "Request.java" >>],
       [tpl |-> "DtoResponse.java.tpl", layer |-> "presentation/dto",
        prefix |-> << >>, suffix |-> << "Response.java" >>],
       [tpl |-> "Controller.java.tpl", layer |-> "presentation/rest",
        prefix |-> << >>, suffix |-> << "Controller.java" >>],
       [tpl |-> "NotFoundException.java.tpl", layer |-> "application/exception",
        prefix |-> << >>, suffix |-> << "NotFoundException.java" >>],
       [tpl |-> "ExistException.java.tpl", layer |-> "application/exception",
        prefix |-> << >>, suffix |-> << "ExistException.java" >>],
       [tpl |-> "EntityExceptionHandler.java.tpl", layer |-> "presentation/rest",
        prefix |-> << >>, suffix |-> << "ExceptionHandler.java" >>] >>

\* required_templates, in the order of the list
required_templates == [k \in 1..Len(Artifacts) |-> Artifacts[k].tpl]

\* paths[...] of the k-th artifact
ArtifactPath(entity, k) ==
    [layer |-> Artifacts[k].layer,
     file |-> Artifacts[k].prefix \o entity \o Artifacts[k].suffix]

ReadmePath == [layer |-> "", file |-> << "README-GENERATED.md" >>]

\* the templates directory: absent, or a directory holding these files
NoDir == [isdir |-> FALSE, files |-> {}]
Dir(files) == [isdir |-> TRUE, files |-> files]

\* load_template_text(templates_dir, name) is None
TemplateAbsent(dir, name) == ~dir.isdir \/ name \notin dir.files

RECURSIVE SelectSeq2(_, _, _)
\* [x for x in s if Keep(x)] for Keep(x) == TemplateAbsent(dir, x)
SelectSeq2(s, dir, i) ==
    IF i > Len(s) THEN << >>
    ELSE (IF TemplateAbsent(dir, s[i]) THEN << s[i] >> ELSE << >>)
         \o SelectSeq2(s, dir, i + 1)

\* only the first missing template is reported
MissingTemplates_FirstOnly(dir) == SubSeq(SelectSeq2(required_templates, dir, 1), 1, 1)

\* missing = [name for name in required_templates if load_template_text(...) is None]
MissingTemplates(dir) == SelectSeq2(required_templates, dir, 1)

TemplatesDirName == << "<templates_dir>" >>

MissingTemplatesMessage(missing) ==
    << "Missing required templates: " >>
    \o Join(<< ", " >>, [i \in 1..Len(missing) |-> << missing[i] >>])
    \o << " in " >> \o TemplatesDirName

NoTemplatesDirMessage ==
    << "Templates directory not found. Provide --templates-dir or create: ",
       "<default_templates_dir>" >>

RenderFailedMessage(name) == << "Template render failed: ", name >>

\* the error of the template-directory step of main(); NoErr when all is there
TemplatesError(dir) ==
    IF ~dir.isdir THEN SystemExit(NoTemplatesDirMessage)
    ELSE IF MissingTemplates(dir) # << >>
    THEN SystemExit(MissingTemplatesMessage(MissingTemplates(dir)))
    ELSE NoErr

(***************************************************************************)
(* Placeholder derivation (main, lines 655-793)                            *)
(***************************************************************************)
\* args.package
BasePkg == << "com", ".", "example", ".", "shop" >>

\* f"{f['type']} {f['name']}"
Component(f) == << f.type, " " >> \o f.name

AllFields(s) == << IdSpecOf(s) >> \o s.fields

\* id_spec.get("generated", True), the default tmpl_jpa_entity uses
IdGenerated_DefaultTrue(s) == IdSpecOf(s).generated # PyFalse

\* id_generated = bool(id_spec.get("generated", False))
IdGenerated(s) == Truthy(IdSpecOf(s).generated)

\* dto_request_fields = (fields if id_generated else all_fields)
DtoRequestFields(s) == IF IdGenerated(s) THEN s.fields ELSE AllFields(s)

DtoResponseFields(s) == AllFields(s)

ComponentsCsv(fields) == Join(<< ", " >>, [i \in 1..Len(fields) |-> Component(fields[i])])

TableName(s) == camel_to_snake(s.entity)

\* base_path = f"/api/{table_name}"
BasePath(s) == << "/", "a", "p", "i", "/" >> \o TableName(s)

\* lines 45-50: JAVA_TYPE_IMPORTS.get(t), None for a type with no import
JAVA_TYPE_IMPORTS(t) ==
    CASE t = "BigDecimal" -> << "import ", "java.math.", "BigDecimal", ";" >>
      [] t = "UUID" -> << "import ", "java.util.", "UUID", ";" >>
      [] t \in { "LocalDate", "LocalDateTime" } -> << "import ", "java.time.", t, ";" >>
      [] OTHER -> None

RECURSIVE QualifyFrom(_, _, _)
\* the loop of qualify_imports from the i-th type on
QualifyFrom(types, i, imports) ==
    IF i > Len(types) THEN imports
    ELSE LET imp == JAVA_TYPE_IMPORTS(types[i])
         IN  QualifyFrom(types, i + 1,
                         IF Truthy(imp) /\ imp \notin Range(imports)
                         THEN Append(imports, imp) ELSE imports)

\* lines 126-132: the list imports of qualify_imports(types)
QualifiedImports(types) == QualifyFrom(types, 1, << >>)

\* lines 126-132
qualify_imports(types) == Join(<< "\n" >>, QualifiedImports(types))

\* line 657: used_types = {f["type"] for f in all_fields}
UsedTypes(all_fields) == { all_fields[i].type : i \in 1..Len(all_fields) }

\* the orders in which a set can be iterated; which one a run sees depends
\* on the hashes of its elements
SetOrders(S) ==
    { q \in [1..Cardinality(S) -> S] : \A x \in S : \E i \in 1..Cardinality(S) : q[i] = x }

\* used_types in iteration order, without the sort
UnsortedTypes(iter) == iter

\* sorted(used_types) when the set is iterated in the order iter
SortedTypes(iter) ==
    LET strs == Sorted([i \in 1..Len(iter) |-> << iter[i] >>])
    IN  [i \in 1..Len(strs) |-> strs[i][1]]

\* line 658: the list of import statements joined into extra_imports
ExtraImportsList(iter) == QualifiedImports(SortedTypes(iter))

\* line 658: extra_imports = qualify_imports(sorted(used_types))
ExtraImports(iter) == qualify_imports(SortedTypes(iter))

\* f"    public {type} get{cap(name)}() {{ return {name}; }}"
Getter(f) ==
    << "    public ", f.type, " ", "get" >> \o cap(f.name) \o << "() { return " >>
    \o f.name \o << "; }" >>

\* f"    public void set{cap(name)}({type} {name}) {{ this.{name} = {name}; }}"
Setter(f) ==
    << "    public void ", "set" >> \o cap(f.name) \o << "(", f.type, " " >> \o f.name
    \o << ") { this." >> \o f.name \o << " = " >> \o f.name \o << "; }" >>

\* line 668
DomainGetters(all_fields, useLombok) ==
    IF useLombok THEN << >>
    ELSE Join(<< "\n" >>, [i \in 1..Len(all_fields) |-> Getter(all_fields[i])])

\* lines 684-686
JpaGettersSetters(all_fields) ==
    Join(<< "\n" >>,
         [i \in 1..Len(all_fields) |->
             Getter(all_fields[i]) \o << "\n" >> \o Setter(all_fields[i])])

\* f"{recv}.get{cap(name)}()"
GetterCall(recv, f) == << recv, ".", "get" >> \o cap(f.name) \o << "()" >>

\* f"request.{name}()"
RequestCall(f) == << "request", "." >> \o f.name \o << "()" >>

\* ", ".join(args)
Csv(args) == Join(<< ", " >>, args)

GetterCalls(recv, fields) == [i \in 1..Len(fields) |-> GetterCall(recv, fields[i])]
RequestCalls(fields) == [i \in 1..Len(fields) |-> RequestCall(fields[i])]

\* lines 697-700
RequestAllArgs(s) ==
    IF IdGenerated(s) THEN Csv(<< << "null" >> >> \o RequestCalls(s.fields))
    ELSE Csv(<< RequestCall(IdSpecOf(s)) >> \o RequestCalls(s.fields))

GeneratedValueLine == "    @GeneratedValue(strategy = GenerationType.IDENTITY)"

\* line 676: the id types whose generated id gets @GeneratedValue
GeneratedValueTypes == { "Long", "Integer" }

\* main._jpa_field_decl for the id (lines 674-679)
JpaIdDecl(id_spec) ==
    << "    @Id", "\n" >>
    \o (IF Truthy(id_spec.generated) /\ id_spec.type \in GeneratedValueTypes
        THEN << GeneratedValueLine, "\n" >> ELSE << >>)
    \o << "    private ", id_spec.type, " " >> \o id_spec.name \o << ";" >>

\* main._jpa_field_decl for any other field (line 680)
JpaFieldDecl(f) ==
    << "    @Column(nullable = false)", "\n", "    private ", f.type, " " >>
    \o f.name \o << ";" >>

\* line 681: all_fields is [id_spec, *fields], and only its first element is
\* id_spec
JpaFieldsDecls(s) ==
    Join(<< "\n" >>, << JpaIdDecl(IdSpecOf(s)) >>
                     \o [i \in 1..Len(s.fields) |-> JpaFieldDecl(s.fields[i])])

\* line 705
CreateIdArg(s) == IF IdGenerated(s) THEN << "null" >> ELSE RequestCall(IdSpecOf(s))

\* the placeholders dict of a run that iterates used_types in the order iter
DerivePlaceholders(s, useLombok, iter) ==
    [key \in PlaceholderKeys |->
        CASE key \in { "entity", "Entity" } -> s.entity
          [] key = "EntityRequest" -> s.entity \o << "Request" >>
          [] key = "EntityResponse" -> s.entity \o << "Response" >>
          [] key = "entity_lower" -> lower_first(s.entity)
          [] key = "package" -> BasePkg
          [] key = "Package" -> [i \in 1..Len(BasePkg) |->
                                    IF BasePkg[i] = "." THEN "/" ELSE BasePkg[i]]
          [] key = "table_name" -> TableName(s)
          [] key = "base_path" -> BasePath(s)
          [] key = "id_type" -> << IdSpecOf(s).type >>
          [] key = "id_name" -> IdSpecOf(s).name
          [] key = "id_name_lower" -> lower_first(IdSpecOf(s).name)
          [] key = "id_generated" -> IF IdGenerated(s) THEN << "true" >> ELSE << "false" >>
          [] key = "dto_response_components" -> ComponentsCsv(DtoResponseFields(s))
          [] key = "dto_request_components" -> ComponentsCsv(DtoRequestFields(s))
          [] key = "extra_imports" -> ExtraImports(iter)
          [] key = "domain_getters" -> DomainGetters(AllFields(s), useLombok)
          [] key = "jpa_getters_setters" -> JpaGettersSetters(AllFields(s))
          [] key = "all_names_csv" ->
                 Csv([i \in 1..Len(AllFields(s)) |-> AllFields(s)[i].name])
          [] key = "adapter_to_entity_args" -> Csv(GetterCalls("a", AllFields(s)))
          [] key = "adapter_to_domain_args" -> Csv(GetterCalls("e", AllFields(s)))
          [] key = "request_all_args" -> RequestAllArgs(s)
          [] key = "jpa_fields_decls" -> JpaFieldsDecls(s)
          [] key = "create_id_arg" -> CreateIdArg(s)
          [] key = "response_from_agg_args" -> Csv(GetterCalls("agg", AllFields(s)))
          [] key = "list_map_response_args" -> Csv(GetterCalls("a", AllFields(s)))
          [] key = "update_create_args" ->
                 Csv(<< IdSpecOf(s).name >> \o RequestCalls(s.fields))
          [] key = "mapper_create_args" ->
                 Csv(<< << "i", "d" >> >> \o RequestCalls(s.fields))
          [] OTHER -> << >>]

NoPlaceholders == [key \in {} |-> << >>]

(***************************************************************************)
(* Relationship fields of the persistence entity (tmpl_jpa_entity,         *)
(* lines 232-283)                                                          *)
(***************************************************************************)
\* str.upper() on the type tag of a relationship, one lexeme
UpperWord(w) ==
    CASE w = "one_to_one" -> "ONE_TO_ONE"
      [] w = "one_to_many" -> "ONE_TO_MANY"
      [] w = "many_to_many" -> "MANY_TO_MANY"
      [] w = "many_to_one" -> "MANY_TO_ONE"
      [] OTHER -> w

\* rtype = (r.get("type") or "").upper()
RelType(r) == IF Truthy(r.type) THEN UpperWord(r.type[1]) ELSE ""

RelKinds == { "ONE_TO_ONE", "ONE_TO_MANY", "MANY_TO_MANY" }

\* the entries the loop does not skip (line 240)
Resolvable(r) == Truthy(r.name) /\ Truthy(r.target) /\ RelType(r) \in RelKinds

\* str(optional).lower() for optional = r.get("optional", True)
OptionalText(r) == IF r.optional = PyFalse THEN "false" ELSE "true"

JoinColumnLine(col) == << "    @JoinColumn(name = \"" >> \o col \o << "\")" >>

JoinTableLine(jt) ==
    << "    @JoinTable(name = \"" >> \o jt.name
    \o << "\", joinColumns = @JoinColumn(name = \"" >> \o jt.joinColumn
    \o << "\"), inverseJoinColumns = @JoinColumn(name = \"" >> \o jt.inverseJoinColumn
    \o << "\"))" >>

\* lines 270-280: the annotations of a MANY_TO_MANY entry
ManyToManyAnnotations(r) ==
    << << "    @ManyToMany(fetch = FetchType.LAZY)" >> >>
    \o (IF /\ Truthy(r.joinTable.name)
           /\ Truthy(r.joinTable.joinColumn)
           /\ Truthy(r.joinTable.inverseJoinColumn)
        THEN << JoinTableLine(r.joinTable) >>
        ELSE << >>)

\* lines 246-255: the annotations of a ONE_TO_ONE entry
OneToOneAnnotations(r) ==
    IF Truthy(r.mappedBy)
    THEN << << "    @OneToOne(mappedBy = \"" >> \o r.mappedBy
            \o << "\", fetch = FetchType.LAZY)" >> >>
    ELSE << << "    @OneToOne(fetch = FetchType.LAZY, optional = ", OptionalText(r), ")" >> >>
         \o (IF Truthy(r.joinColumn) THEN << JoinColumnLine(r.joinColumn) >> ELSE << >>)

\* lines 258-267: the annotations of a ONE_TO_MANY entry
OneToManyAnnotations(r) ==
    IF Truthy(r.mappedBy)
    THEN << << "    @OneToMany(mappedBy = \"" >> \o r.mappedBy
            \o << "\", fetch = FetchType.LAZY)" >> >>
    ELSE << << "    @OneToMany(fetch = FetchType.LAZY)" >> >>
         \o (IF Truthy(r.joinColumn) THEN << JoinColumnLine(r.joinColumn) >> ELSE << >>)

RelAnnotations(r) ==
    CASE RelType(r) = "ONE_TO_ONE" -> OneToOneAnnotations(r)
      [] RelType(r) = "ONE_TO_MANY" -> OneToManyAnnotations(r)
      [] OTHER -> ManyToManyAnnotations(r)

RelFieldType(r) ==
    IF RelType(r) = "ONE_TO_ONE"
    THEN r.target \o << "Entity" >>
    ELSE << "Set<" >> \o r.target \o << "Entity>" >>

RelInit(r) ==
    IF RelType(r) = "ONE_TO_ONE" THEN << >> ELSE << " = new java.util.LinkedHashSet<>()" >>

\* line 283: the annotations and the field declaration, one per line
RelFieldSrc(r) ==
    Join(<< "\n" >>,
         RelAnnotations(r)
         \o << << "    private " >> \o RelFieldType(r) \o << " " >> \o r.name
                \o RelInit(r) \o << ";" >> >>)

\* line 242
TargetImport(pkg, r) ==
    << "import " >> \o pkg \o << ".infrastructure.persistence." >> \o r.target
    \o << "Entity;" >>

NoRelFields == [rel_fields_src |-> << >>, target_imports |-> << >>, need_set |-> FALSE]

RECURSIVE ResolveFrom(_, _, _, _)
\* the loop of lines 236-283 from the i-th entry on
ResolveFrom(pkg, rels, i, acc) ==
    IF i > Len(rels) THEN acc
    ELSE IF ~Resolvable(rels[i]) THEN ResolveFrom(pkg, rels, i + 1, acc)
    ELSE LET r == rels[i]
             imp == TargetImport(pkg, r)
         IN  ResolveFrom(pkg, rels, i + 1,
                 [rel_fields_src |-> Append(acc.rel_fields_src, RelFieldSrc(r)),
                  target_imports |->
                      IF imp \in Range(acc.target_imports)
                      THEN acc.target_imports
                      ELSE Append(acc.target_imports, imp),
                  need_set |-> acc.need_set \/ RelType(r) # "ONE_TO_ONE"])

\* rel_fields_src, target_imports and need_set of tmpl_jpa_entity
ResolveRelationships(pkg, rels) == ResolveFrom(pkg, rels, 1, NoRelFields)

\* the entries that get accessors when only the name is looked at
HasAccessors_NameOnly(r) == Truthy(r.name) /\ RelType(r) \in RelKinds

\* the entries that get accessors (the filter of lines 298 and 302):
\* r.get('name') and r.get('target') and r.get('type', '').upper() in {...}
HasAccessors(r) == Truthy(r.name) /\ Truthy(r.target) /\ RelType(r) \in RelKinds

\* the accessor type with every kind taken for a collection
RelAccessorType_AlwaysSet(r) == << "Set<" >> \o r.target \o << "Entity>" >>

\* lines 297 and 301: the type the accessors of a relationship use
RelAccessorType(r) ==
    IF UpperWord(r.type[1]) # "ONE_TO_ONE"
    THEN << "Set<" >> \o r.target \o << "Entity>" >>
    ELSE r.target \o << "Entity" >>

\* line 297
RelGetter(r) ==
    << "        public " >> \o RelAccessorType(r) \o << " ", "get" >> \o cap(r.name)
    \o << "() { return " >> \o r.name \o << "; }" >>

\* line 301
RelSetter(r) ==
    << "        public void ", "set" >> \o cap(r.name) \o << "(" >> \o RelAccessorType(r)
    \o << " " >> \o r.name \o << ") { this." >> \o r.name \o << " = " >> \o r.name
    \o << "; }" >>

\* lines 296-299
RelGetters(rels, use_lombok) ==
    IF use_lombok THEN << >>
    ELSE LET rs == SelectSeq(rels, HasAccessors)
         IN  Join(<< "\n" >>, [i \in 1..Len(rs) |-> RelGetter(rs[i])])

\* lines 300-303
RelSetters(rels, use_lombok) ==
    IF use_lombok THEN << >>
    ELSE LET rs == SelectSeq(rels, HasAccessors)
         IN  Join(<< "\n" >>, [i \in 1..Len(rs) |-> RelSetter(rs[i])])

\* what tmpl_jpa_entity derives from its relationships: the fields, the
\* imports and the accessors
JpaEntityRelationships(pkg, rels, use_lombok) ==
    [rel_fields_src |-> ResolveRelationships(pkg, rels).rel_fields_src,
     target_imports |-> ResolveRelationships(pkg, rels).target_imports,
     need_set |-> ResolveRelationships(pkg, rels).need_set,
     rel_getters |-> RelGetters(rels, use_lombok),
     rel_setters |-> RelSetters(rels, use_lombok)]

(***************************************************************************)
(* main(): one generation run                                              *)
(***************************************************************************)
\* the text of a template file of the runs checked: it names itself and uses
\* some placeholders
TemplateText(name) ==
    << "// ", name, "\n", "$", "extra_imports", "\n",
       "$", "Entity", " ", "$", "base_path", " ",
       "(", "$", "dto_request_components", ")", "\n", "\n" >>

\* lines 584-596: the entity name, the id type, then the field types
Validate ==
    /\ pc = "validate"
    /\ IF ValidationError(spec) # NoErr
       THEN pc' = "failed" /\ err' = ValidationError(spec)
       ELSE pc' = "templates" /\ err' = err
    /\ UNCHANGED << spec, lombok, templatesDir, placeholders,
                    nextArtifact, rendered, written, fnIn, fnOut >>

\* lines 625-653: the templates directory and the required templates
ResolveTemplates ==
    /\ pc = "templates"
    /\ IF TemplatesError(templatesDir) # NoErr
       THEN pc' = "failed" /\ err' = TemplatesError(templatesDir)
       ELSE pc' = "derive" /\ err' = err
    /\ UNCHANGED << spec, lombok, templatesDir, placeholders,
                    nextArtifact, rendered, written, fnIn, fnOut >>

\* lines 655-793: the placeholders dict
Derive ==
    /\ pc = "derive"
    /\ \E iter \in SetOrders(UsedTypes(AllFields(spec))) :
          placeholders' = DerivePlaceholders(spec, lombok, iter)
    /\ nextArtifact' = 1
    /\ pc' = "render"
    /\ UNCHANGED << spec, lombok, templatesDir, rendered, written, err,
                    fnIn, fnOut >>

\* lines 809-859, one pair: content = _render(name, placeholders), then
\* write_file(paths[...], content).  The templates directory is not the run's
\* own: a file that was there when main() checked the directory can have been
\* removed when _render loads it again, and _render then raises SystemExit.
\* write_file raises OSError when the directory or the file cannot be
\* created.  The substitution itself can raise (the handler of line 158
\* catches every Exception); whether it does is the environment's choice.
RenderAndWrite ==
    /\ pc = "render"
    /\ \E removed \in BOOLEAN, raised \in BOOLEAN, writeOk \in BOOLEAN :
          LET k == nextArtifact
              name == Artifacts[k].tpl
              dir == IF removed THEN Dir(templatesDir.files \ { name }) ELSE templatesDir
              text == IF TemplateAbsent(dir, name) THEN None ELSE TemplateText(name)
              c == RenderedOrNone(text, placeholders, raised)
              content == Rendered(c, placeholders)
              path == ArtifactPath(spec.entity, k)
          IN  /\ templatesDir' = dir
              /\ IF RenderFailed(c)
                 THEN /\ pc' = "failed"
                      /\ err' = SystemExit(RenderFailedMessage(name))
                      /\ UNCHANGED << nextArtifact, rendered, written >>
                 ELSE /\ rendered' = rendered \cup { name }
                      /\ IF writeOk
                         THEN /\ written' = Append(written,
                                                   [path |-> path,
                                                    content |-> FileContent(content)])
                              /\ nextArtifact' = k + 1
                              /\ pc' = IF k = Len(Artifacts) THEN "readme" ELSE "render"
                              /\ err' = err
                         ELSE /\ pc' = "failed"
                              /\ err' = OSError(path.file)
                              /\ UNCHANGED << nextArtifact, written >>
    /\ UNCHANGED << spec, lombok, placeholders, fnIn, fnOut >>

ReadmeText(entity) == << "# Generated CRUD Feature: " >> \o entity \o << "\n" >>

\* lines 861-889: README-GENERATED.md
WriteReadme ==
    /\ pc = "readme"
    /\ \E writeOk \in BOOLEAN :
          IF writeOk
          THEN /\ written' = Append(written, [path |-> ReadmePath,
                                              content |-> FileContent(ReadmeText(spec.entity))])
               /\ pc' = "done"
               /\ err' = err
          ELSE /\ pc' = "failed"
               /\ err' = OSError(ReadmePath.file)
               /\ written' = written
    /\ UNCHANGED << spec, lombok, templatesDir, placeholders,
                    nextArtifact, rendered, fnIn, fnOut >>

Next ==
    \/ Validate
    \/ ResolveTemplates
    \/ Derive
    \/ RenderAndWrite
    \/ WriteReadme

(***************************************************************************)
(* Entity specs of the runs that are checked                               *)
(***************************************************************************)
MaxFields == 2
MaxRels == 1

RECURSIVE SeqsUpTo(_, _)
\* the sequences over S of length at most n
SeqsUpTo(S, n) ==
    IF n = 0 THEN { << >> }
    ELSE LET shorter == SeqsUpTo(S, n - 1)
         IN  shorter \cup { Append(q, x) : q \in shorter, x \in S }

EntityPool ==
    { None,
      << "P", "r", "o", "d", "u", "c", "t" >>,
      << "p", "r", "o", "d", "u", "c", "t" >>,
      << "O", "r", "d", "e", "r", "I", "t", "e", "m" >>,
      << "T", "a", "g", "\n" >> }

IdPool ==
    { NoId,
      [name |-> << "i", "d" >>, type |-> "Long", generated |-> PyTrue],
      [name |-> << "i", "d" >>, type |-> "Long", generated |-> None],
      [name |-> << "s", "k", "u" >>, type |-> "UUID", generated |-> PyFalse],
      [name |-> << "s", "k", "u" >>, type |-> "UUID", generated |-> PyTrue],
      [name |-> << "s", "k", "u" >>, type |-> "Money", generated |-> PyTrue] }

FieldPool ==
    { [name |-> << "n", "a", "m", "e" >>, type |-> "String"],
      [name |-> << "p", "r", "i", "c", "e" >>, type |-> "BigDecimal"],
      [name |-> << "i", "d" >>, type |-> "Long"],
      [name |-> << "t", "a", "x" >>, type |-> "Money"] }

\* a relationship entry of the spec document; absent keys are None
Rel(type, name, target, mappedBy, joinColumn, joinTable) ==
    [type |-> type, name |-> name, target |-> target, mappedBy |-> mappedBy,
     joinColumn |-> joinColumn, joinTable |-> joinTable, optional |-> None]

NoJoinTable == [name |-> None, joinColumn |-> None, inverseJoinColumn |-> None]

MainRelPool ==
    { Rel(<< "ONE_TO_ONE" >>, << "o", "w", "n", "e", "r" >>, << "User" >>, None,
          << "owner_id" >>, NoJoinTable) }

FullDir == Dir(Range(required_templates))

DirPool == { NoDir, FullDir, Dir(Range(required_templates) \ { "Controller.java.tpl" }) }

Init ==
    /\ pc = "validate"
    /\ spec \in [entity : EntityPool, id : IdPool, fields : SeqsUpTo(FieldPool, MaxFields),
                  relationships : SeqsUpTo(MainRelPool, MaxRels)]
    /\ lombok \in BOOLEAN
    /\ templatesDir \in DirPool
    /\ placeholders = NoPlaceholders
    /\ nextArtifact = 0
    /\ rendered = {}
    /\ written = << >>
    /\ err = NoErr
    /\ fnIn = << >>
    /\ fnOut = << >>

Spec == Init /\ [][Next]_vars

(***************************************************************************)
(* Properties of a generation run                                          *)
(***************************************************************************)
\* sub occurs in t as a contiguous piece
Contains(t, sub) ==
    \E i \in 0..(Len(t) - Len(sub)) : SubSeq(t, i + 1, i + Len(sub)) = sub

\* the lexemes of text t between the first lexeme `open` and the next lexeme
\* `close` after it
Between(t, open, close) ==
    LET i == IndexOf(t, open)
        j == CHOOSE n \in (i + 1)..Len(t) :
                 t[n] = close /\ \A m \in (i + 1)..(n - 1) : t[m] # close
    IN  SubSeq(t, i + 1, j - 1)

PastValidation == pc \in { "templates", "derive", "render", "readme", "done" }
NothingProduced == rendered = {} /\ written = << >>
EntityOk(s) == Truthy(s.entity) /\ EntityPatternMatches(s.entity)
IdTypeOk(s) == IdSpecOf(s).type \in SUPPORTED_SIMPLE_TYPES
FieldTypeOk(f) == f.type \in SUPPORTED_SIMPLE_TYPES

\* C1: a run that ended in an error has written no artifact file.
C1_FailedRunWroteNothing == pc = "failed" => written = << >>

\* the names of an entity spec: the id's, then the declared fields'
AllNames(s) == [i \in 1..Len(AllFields(s)) |-> AllFields(s)[i].name]
HasDuplicateNames(s) ==
    \E i, j \in 1..Len(AllNames(s)) : i # j /\ AllNames(s)[i] = AllNames(s)[j]

\* C3: a spec with a duplicate among the id name and the declared field names
\* never gets past validation, and nothing is rendered or written for it.
C3_DuplicateNamesRejected ==
    HasDuplicateNames(spec) => ~PastValidation /\ NothingProduced

\* C9: validation checks the entity name, then the id type, then the field
\* types in declaration order, and stops at the first check that fails; a
\* spec with a missing or ill-formed entity name ends with the entity-name
\* error whatever else is wrong with it, and nothing is rendered or written.
C9_ValidationOrder ==
    /\ (pc # "validate" /\ ~EntityOk(spec)) =>
          pc = "failed" /\ err = SystemExit(EntityNameMessage) /\ NothingProduced
    /\ (pc # "validate" /\ EntityOk(spec) /\ ~IdTypeOk(spec)) =>
          /\ pc = "failed" /\ NothingProduced
          /\ err.exc = "SystemExit"
          /\ err.msg[Len(err.msg)] = IdSpecOf(spec).type
          /\ \A i \in 1..Len(spec.fields) :
                ~Contains(err.msg, << " -> ", spec.fields[i].type >>)
    /\ (pc # "validate" /\ EntityOk(spec) /\ IdTypeOk(spec)
           /\ \E i \in 1..Len(spec.fields) : ~FieldTypeOk(spec.fields[i])) =>
          /\ pc = "failed" /\ NothingProduced
          /\ err.exc = "SystemExit"
          /\ \E i \in 1..Len(spec.fields) :
                /\ ~FieldTypeOk(spec.fields[i])
                /\ \A j \in 1..(i - 1) : FieldTypeOk(spec.fields[j])
                /\ err.msg = << "Unsupported field type: " >> \o spec.fields[i].name
                               \o << " -> ", spec.fields[i].type >>
    /\ (EntityOk(spec) /\ IdTypeOk(spec)
           /\ \A i \in 1..Len(spec.fields) : FieldTypeOk(spec.fields[i])) =>
          (pc = "failed" => err.msg # EntityNameMessage /\ err.msg[1] # "Unsupported ")

\* a run rejected for its entity name although its id type and one of its
\* field types are unsupported too
C9_Witness ==
    /\ pc = "failed"
    /\ spec.entity # None /\ ~EntityPatternMatches(spec.entity)
    /\ ~IdTypeOk(spec)
    /\ Len(spec.fields) = 2 /\ FieldTypeOk(spec.fields[1]) /\ ~FieldTypeOk(spec.fields[2])
    /\ err = SystemExit(EntityNameMessage)

\* the name of the field whose type validation rejects
OffendingName(s) ==
    IF ~IdTypeOk(s) THEN IdSpecOf(s).name ELSE s.fields[FirstBadField(s.fields)].name

\* C10: a spec with an unsupported id type or field type is rejected at
\* validation, before any template is loaded or file written, and the error
\* names the offending field, the id included.
C10_UnsupportedTypeNamesField ==
    (pc # "validate" /\ EntityOk(spec)
       /\ (~IdTypeOk(spec) \/ \E i \in 1..Len(spec.fields) : ~FieldTypeOk(spec.fields[i]))) =>
        /\ pc = "failed" /\ nextArtifact = 0 /\ NothingProduced
        /\ Contains(err.msg, OffendingName(spec))

Derived == placeholders # NoPlaceholders

Product == << "P", "r", "o", "d", "u", "c", "t" >>

\* C7: the base path placeholder is /api/ followed by the lowercased entity
\* name and a trailing "s"; for Product it is /api/products.
C7_BasePathPlural ==
    Derived =>
        /\ placeholders["base_path"][Len(placeholders["base_path"])] = "s"
        /\ spec.entity = Product =>
              placeholders["base_path"] =
                  << "/", "a", "p", "i", "/", "p", "r", "o", "d", "u", "c", "t", "s" >>

RECURSIVE SplitOn(_, _)
\* the pieces of a text between the occurrences of the lexeme sep
SplitOn(t, sep) ==
    IF t = << >> THEN << >>
    ELSE IF \E i \in 1..Len(t) : t[i] = sep
         THEN LET i == IndexOf(t, sep)
              IN  << SubSeq(t, 1, i - 1) >> \o SplitOn(SubSeq(t, i + 1, Len(t)), sep)
         ELSE << t >>

\* the member "<type> <name>" of a contract's member list
Member(f) == << f.type, " " >> \o f.name
MembersOf(fields) == [i \in 1..Len(fields) |-> Member(fields[i])]

\* C8: the request contract's members are the declared fields in spec order
\* when the id is marked generated, and the id followed by them otherwise; the
\* response contract's members are always the id followed by the declared
\* fields.
C8_ContractMembers ==
    Derived =>
        /\ SplitOn(placeholders["dto_request_components"], ", ") =
              IF IdSpecOf(spec).generated = PyTrue
              THEN MembersOf(spec.fields)
              ELSE << Member(IdSpecOf(spec)) >> \o MembersOf(spec.fields)
        /\ SplitOn(placeholders["dto_response_components"], ", ") =
              << Member(IdSpecOf(spec)) >> \o MembersOf(spec.fields)

\* a derived run with two declared fields whose id has no "generated" key:
\* the request contract has three members, the id first
C8_Witness ==
    /\ Derived /\ Len(spec.fields) = 2
    /\ IdSpecOf(spec).generated = None
    /\ Len(SplitOn(placeholders["dto_request_components"], ", ")) = 3

(***************************************************************************)
(* Runs over every content of the templates directory                      *)
(***************************************************************************)
\* scenario A of the generator's documentation
ProductSpec ==
    [entity |-> Product,
     id |-> [name |-> << "i", "d" >>, type |-> "Long", generated |-> PyTrue],
     fields |-> << [name |-> << "n", "a", "m", "e" >>, type |-> "String"],
                   [name |-> << "p", "r", "i", "c", "e" >>, type |-> "BigDecimal"] >>,
     relationships |-> << >>]

InitTemplates ==
    /\ pc = "validate"
    /\ spec = ProductSpec
    /\ lombok = FALSE
    /\ templatesDir \in { Dir(files) : files \in SUBSET Range(required_templates) }
    /\ placeholders = NoPlaceholders
    /\ nextArtifact = 0
    /\ rendered = {}
    /\ written = << >>
    /\ err = NoErr
    /\ fnIn = << >>
    /\ fnOut = << >>

SpecTemplates == InitTemplates /\ [][Next]_vars

\* the template names an error message lists
ListedTemplates(msg) == Range(msg) \cap Range(required_templates)

AbsentTemplates(dir) == Range(required_templates) \ dir.files

\* C2: when some required templates are absent from the templates directory,
\* the directory step ends the run with an error that lists exactly the
\* absent names, and nothing has been rendered or written.
C2_MissingTemplatesListed ==
    [][(pc = "templates" /\ templatesDir.isdir /\ AbsentTemplates(templatesDir) # {}) =>
          /\ pc' = "failed"
          /\ err'.exc = "SystemExit"
          /\ err'.msg[1] = "Missing required templates: "
          /\ ListedTemplates(err'.msg) = AbsentTemplates(templatesDir)
          /\ rendered' = {} /\ written' = << >>]_vars

\* a run ended by the directory step with three templates absent
C2_Witness ==
    /\ pc = "failed"
    /\ err.msg[1] = "Missing required templates: "
    /\ ListedTemplates(err.msg) =
          { "DomainModel.java.tpl", "Controller.java.tpl", "ExistException.java.tpl" }
    /\ AbsentTemplates(templatesDir) = ListedTemplates(err.msg)

(***************************************************************************)
(* _render as a function of the template text and the placeholders         *)
(***************************************************************************)
MaxTemplateLen == 4

TemplateLexemes == { "$", "{", "}", " ", "get_constructor", "package", "X" }

\* placeholders dicts: package is the caller's --package argument, which no
\* check restricts; get_constructor is "" in main()
RenderMaps ==
    { [package |-> p, get_constructor |-> << >>] :
        p \in { << "com" >>, << "$", "package" >>, << "$", "get_constructor" >> } }

InitRender ==
    /\ pc = "call_render"
    /\ fnIn \in [text : SeqsUpTo(TemplateLexemes, MaxTemplateLen), map : RenderMaps]
    /\ fnOut = << >>
    /\ spec = ProductSpec
    /\ lombok = FALSE
    /\ templatesDir = FullDir
    /\ placeholders = NoPlaceholders
    /\ nextArtifact = 0
    /\ rendered = {}
    /\ written = << >>
    /\ err = NoErr

\* c = _render(name, placeholders_dict) for a template that exists
CallRender ==
    /\ pc = "call_render"
    /\ fnOut' = Render(fnIn.text, fnIn.map)
    /\ pc' = "returned"
    /\ UNCHANGED << spec, lombok, templatesDir, placeholders, nextArtifact, rendered,
                    written, err, fnIn >>

NextRender == CallRender

SpecRender == InitRender /\ [][NextRender]_vars

\* C6: the rendered text is the template after one pass of substitution:
\* each $key with a known key replaced by its value, the values not scanned
\* again, every other token left as it is (then trailing white space
\* stripped and a newline appended).
C6_SinglePassSubstitution ==
    pc = "returned" =>
        fnOut = rstrip(safe_substitute(fnIn.text, fnIn.map)) \o << "\n" >>

\* C6, the unknown key that begins with a known key name: $get_constructorX
\* is left in the output as it is.
C6_UnknownKeyKept ==
    (pc = "returned" /\ fnIn.text = << "$", "get_constructor", "X" >>) =>
        fnOut = << "$", "get_constructor", "X", "\n" >>

(***************************************************************************)
(* tmpl_jpa_entity's relationship loop as a function of the relationships  *)
(***************************************************************************)
MaxJpaRels == 2

JoinTablePool ==
    { NoJoinTable,
      [name |-> << "product_tag" >>, joinColumn |-> << "product_id" >>,
       inverseJoinColumn |-> None],
      [name |-> << "product_tag" >>, joinColumn |-> << "product_id" >>,
       inverseJoinColumn |-> << "tag_id" >>] }

RelPool ==
    { Rel(type, << "t", "a", "g", "s" >>, << "Tag" >>, mappedBy, joinColumn, joinTable) :
        type \in { << "ONE_TO_ONE" >>, << "one_to_many" >>, << "MANY_TO_MANY" >>,
                   << "MANY_TO_ONE" >> },
        mappedBy \in { None, << "product" >> },
        joinColumn \in { None, << "tag_id" >> },
        joinTable \in JoinTablePool }
    \cup { Rel(<< "ONE_TO_MANY" >>, None, << "Tag" >>, None, None, NoJoinTable),
           Rel(<< "ONE_TO_ONE" >>, << "o", "w", "n", "e", "r" >>, None, None, None,
               NoJoinTable),
           Rel(None, << "o", "w", "n", "e", "r" >>, << "User" >>, None, None, NoJoinTable),
           Rel(<< "ONE_TO_ONE" >>, << "o", "w", "n", "e", "r" >>, << "User" >>, None,
               << "owner_id" >>, NoJoinTable) }

InitJpa ==
    /\ pc = "call_jpa"
    /\ fnIn \in [pkg : { BasePkg }, relationships : SeqsUpTo(RelPool, MaxJpaRels),
                 use_lombok : BOOLEAN]
    /\ fnOut = << >>
    /\ spec = ProductSpec
    /\ lombok = FALSE
    /\ templatesDir = FullDir
    /\ placeholders = NoPlaceholders
    /\ nextArtifact = 0
    /\ rendered = {}
    /\ written = << >>
    /\ err = NoErr

\* the relationship loop of tmpl_jpa_entity(pkg, ..., relationships, ...)
CallJpaEntity ==
    /\ pc = "call_jpa"
    /\ fnOut' = JpaEntityRelationships(fnIn.pkg, fnIn.relationships, fnIn.use_lombok)
    /\ pc' = "returned"
    /\ UNCHANGED << spec, lombok, templatesDir, placeholders, nextArtifact, rendered,
                    written, err, fnIn >>

NextJpa == CallJpaEntity

SpecJpa == InitJpa /\ [][NextJpa]_vars

\* the entries of the list that are resolved, in declaration order; the k-th
\* of them is the source of the k-th relationship field
ResolvedRels(rels) == SelectSeq(rels, Resolvable)

HasJoinTableTriple(r) ==
    /\ Truthy(r.joinTable.name)
    /\ Truthy(r.joinTable.joinColumn)
    /\ Truthy(r.joinTable.inverseJoinColumn)

\* a MANY_TO_MANY entry with no mappedBy and no complete joinTable triple
IncompleteManyToMany(r) ==
    /\ Resolvable(r) /\ RelType(r) = "MANY_TO_MANY"
    /\ ~Truthy(r.mappedBy) /\ ~HasJoinTableTriple(r)

\* C4: a MANY_TO_MANY relationship with no mappedBy and no complete
\* joinTable triple produces no relationship field.
C4_IncompleteManyToManyRejected ==
    pc = "returned" =>
        \A k \in 1..Len(ResolvedRels(fnIn.relationships)) :
            IncompleteManyToMany(ResolvedRels(fnIn.relationships)[k]) =>
                /\ Len(fnOut.rel_fields_src) < k
                /\ \A j \in 1..Len(fnOut.rel_fields_src) :
                      ~Contains(fnOut.rel_fields_src[j],
                                << " " >> \o ResolvedRels(fnIn.relationships)[k].name)

MappedByPrefixes ==
    { "    @OneToOne(mappedBy = \"", "    @OneToMany(mappedBy = \"",
      "    @ManyToMany(mappedBy = \"" }

\* the field source carries an annotation keyed by mappedBy = "<value>"
KeyedByMappedBy(src, value) ==
    \E prefix \in MappedByPrefixes : Contains(src, << prefix >> \o value \o << "\", fetch = FetchType.LAZY)" >>)

EmitsJoinColumn(src) == "    @JoinColumn(name = \"" \in Range(src)
EmitsJoinTable(src) == "    @JoinTable(name = \"" \in Range(src)

\* the side the decision table gives for entry r, emitted as field source src
EmitsTableSide(r, src) ==
    IF Truthy(r.mappedBy)
    THEN KeyedByMappedBy(src, r.mappedBy) /\ ~EmitsJoinColumn(src) /\ ~EmitsJoinTable(src)
    ELSE /\ \A prefix \in MappedByPrefixes : prefix \notin Range(src)
         /\ IF RelType(r) = "MANY_TO_MANY"
            THEN HasJoinTableTriple(r) => Contains(src, JoinTableLine(r.joinTable))
            ELSE /\ ~EmitsJoinTable(src)
                 /\ Truthy(r.joinColumn) => Contains(src, JoinColumnLine(r.joinColumn))

\* C5: for each kind and for mappedBy present or absent, the relationship
\* field carries the side the decision table gives: keyed by mappedBy with no
\* join column or join table when mappedBy is present, the owning side with
\* its join column or join-table triple when it is absent.
C5_DecisionTable ==
    pc = "returned" =>
        /\ Len(fnOut.rel_fields_src) = Len(ResolvedRels(fnIn.relationships))
        /\ \A k \in 1..Len(fnOut.rel_fields_src) :
              EmitsTableSide(ResolvedRels(fnIn.relationships)[k], fnOut.rel_fields_src[k])

\* C5 for the kinds other than MANY_TO_MANY
C5_DecisionTableOneSided ==
    pc = "returned" =>
        /\ Len(fnOut.rel_fields_src) = Len(ResolvedRels(fnIn.relationships))
        /\ \A k \in 1..Len(fnOut.rel_fields_src) :
              RelType(ResolvedRels(fnIn.relationships)[k]) # "MANY_TO_MANY" =>
                  EmitsTableSide(ResolvedRels(fnIn.relationships)[k],
                                 fnOut.rel_fields_src[k])

(***************************************************************************)
(* Fineract generators (agents/skills/fineract-development/scripts):       *)
(* the type-mapping tables of utils.py, generate_liquibase.py and          *)
(* generate_read_service.py.  A field is a record [name, type, length];    *)
(* length is None when the field was given without one.  A function that   *)
(* returns leaves raised = None; one that raises leaves the exception.     *)
(***************************************************************************)
\* utils.py lines 40-43, the same two passes as camel_to_snake
to_snake_case(name) == LowerStr(SubPass2(SubPass1(name, 1), 1))

RECURSIVE Without(_, _)
\* s.replace(c, "") for a one-character c
Without(s, c) ==
    IF s = << >> THEN << >>
    ELSE IF s[1] = c THEN Without(Tail(s), c)
    ELSE << s[1] >> \o Without(Tail(s), c)

\* utils.py lines 46-48
to_upper_snake(name) == UpperStr(to_snake_case(name))

\* utils.py lines 51-55
to_camel_case(name) == IF name = << >> THEN name ELSE << LowerChar(name[1]) >> \o Tail(name)

\* the keys of TYPE_MAP (generate_liquibase.py lines 12-23)
TYPE_MAP_Keys ==
    { "String", "BigDecimal", "Long", "long", "Integer", "int", "boolean", "Boolean",
      "LocalDate", "LocalDateTime" }

\* lambda l: f"VARCHAR({l or 255})" with the length ignored
Varchar_IgnoresLength(l) == << "VARCHAR(", "2", "5", "5", ")" >>

\* lambda l: f"VARCHAR({l or 255})"
Varchar(l) ==
    << "VARCHAR(" >> \o (IF Truthy(l) THEN l ELSE << "2", "5", "5" >>) \o << ")" >>

\* TYPE_MAP[tag](l) for a key of TYPE_MAP
TYPE_MAP(tag, l) ==
    CASE tag = "String" -> Varchar(l)
      [] tag = "BigDecimal" -> << "DECIMAL(19,6)" >>
      [] tag \in { "Long", "long" } -> << "BIGINT" >>
      [] tag \in { "Integer", "int" } -> << "INT" >>
      [] tag \in { "boolean", "Boolean" } -> << "TINYINT(1)" >>
      [] tag = "LocalDate" -> << "DATE" >>
      [] tag = "LocalDateTime" -> << "DATETIME" >>

\* lines 37-38: TYPE_MAP.get(ftype, lambda l: f"VARCHAR({l or 255})")(length)
DbType(ftype, l) == IF ftype \in TYPE_MAP_Keys THEN TYPE_MAP(ftype, l) ELSE Varchar(l)

\* lines 40-44
ColumnNullable(ftype) == IF ftype \in { "boolean", "Boolean" } THEN "false" ELSE "true"
ColumnExtras(ftype) ==
    IF ftype \in { "boolean", "Boolean" } THEN << " defaultValueNumeric=\"", "0", "\"" >>
    ELSE << >>

\* lines 46-48: one <column> element
ColumnXml(f) ==
    << "            <column name=\"" >> \o to_snake_case(f.name) \o << "\" type=\"" >>
    \o DbType(f.type, f.length) \o << "\"" >> \o ColumnExtras(f.type)
    \o << ">\n                <constraints nullable=\"", ColumnNullable(f.type),
          "\"/>\n            </column>" >>

\* lines 31-33
PrimaryKeyXml ==
    << "            <column name=\"", "i", "d", "\" type=\"", "BIGINT", "\"",
       " autoIncrement=\"true\"",
       ">\n                <constraints primaryKey=\"true\" nullable=\"", "false",
       "\"/>\n            </column>" >>

\* lines 51-56
AuditColumnsXml ==
    << << "            <column name=\"created_by\" type=\"BIGINT\"/>" >>,
       << "            <column name=\"created_on_utc\" type=\"DATETIME\"/>" >>,
       << "            <column name=\"last_modified_by\" type=\"BIGINT\"/>" >>,
       << "            <column name=\"last_modified_on_utc\" type=\"DATETIME\"/>" >> >>

\* lines 28-56: columns_xml
ColumnsXml(fields) ==
    << PrimaryKeyXml >> \o [i \in 1..Len(fields) |-> ColumnXml(fields[i])]
    \o AuditColumnsXml

PermissionActions == << "CREATE", "READ", "UPDATE", "DELETE" >>

\* line 61
EntityUpper(entity_name) == Without(to_upper_snake(entity_name), "_")

\* lines 64-70: one <insert> into m_permission
PermissionXml(action, entity_upper) ==
    << "        <insert tableName=\"m_permission\">\n",
       "            <column name=\"grouping\" value=\"portfolio\"/>\n",
       "            <column name=\"code\" value=\"", action, "_" >> \o entity_upper
    \o << "\"/>\n", "            <column name=\"entity_name\" value=\"" >> \o entity_upper
    \o << "\"/>\n", "            <column name=\"action_name\" value=\"", action, "\"/>\n",
          "            <column name=\"can_maker_checker\" valueBoolean=\"false\"/>\n",
          "        </insert>" >>

\* lines 62-70: permissions
PermissionsXml(entity_name) ==
    [i \in 1..Len(PermissionActions) |->
        PermissionXml(PermissionActions[i], EntityUpper(entity_name))]

\* lines 74-92: the changelog document (the attributes of the root element
\* are abridged)
ChangelogXml(table_name, columns_xml, permissions, author) ==
    << "<?xml version=\"1.0\" encoding=\"UTF-8\"?>\n<databaseChangeLog ...>\n\n",
       "    <changeSet author=\"" >> \o author \o << "\" id=\"1\">\n",
       "        <createTable tableName=\"" >> \o table_name \o << "\">\n" >>
    \o Join(<< "\n" >>, columns_xml)
    \o << "\n        </createTable>\n    </changeSet>\n\n",
          "    <changeSet author=\"" >> \o author \o << "\" id=\"2\">\n" >>
    \o Join(<< "\n" >>, permissions)
    \o << "\n    </changeSet>\n\n</databaseChangeLog>\n" >>

\* generate_liquibase(entity_name, table_name, fields, author): the document
\* and the columns_xml list it is joined from
generate_liquibase(entity_name, table_name, fields, author) ==
    [raised |-> None,
     columns_xml |-> ColumnsXml(fields),
     text |-> ChangelogXml(table_name, ColumnsXml(fields), PermissionsXml(entity_name),
                           author)]

\* the keys of JDBC_GETTER (generate_read_service.py lines 12-23)
JDBC_GETTER_Keys == TYPE_MAP_Keys

JDBC_GETTER(tag) ==
    CASE tag = "String" -> << "rs.getString" >>
      [] tag = "BigDecimal" -> << "rs.getBigDecimal" >>
      [] tag \in { "Long", "long" } -> << "rs.getLong" >>
      [] tag \in { "Integer", "int" } -> << "rs.getInt" >>
      [] tag \in { "boolean", "Boolean" } -> << "rs.getBoolean" >>
      [] tag = "LocalDate" -> << "rs.getObject(\"{col}\", LocalDate.class" >>
      [] tag = "LocalDateTime" -> << "rs.getObject(\"{col}\", LocalDateTime.class" >>

\* line 59: JDBC_GETTER.get(ftype, "rs.getString")
JdbcGetter(ftype) ==
    IF ftype \in JDBC_GETTER_Keys THEN JDBC_GETTER(ftype) ELSE << "rs.getString" >>

\* lines 59-64: the row-mapper line of one field
MapperLine(f) ==
    << "            data.", "set" >> \o cap(f.name) \o << "(" >>
    \o (IF f.type \in { "LocalDate", "LocalDateTime" }
        THEN << "rs.getObject", "(\"" >> \o f.name \o << "\", ", f.type, ".class", "));" >>
        ELSE JdbcGetter(f.type) \o << "(\"" >> \o f.name \o << "\")", ");" >>)

\* utils.py lines 91-98: the keys of the imports dict
ImportKeys == { "BigDecimal", "LocalDate", "LocalDateTime", "Set", "List", "Map" }

\* utils.py lines 89-99: imports.get(java_type, "")
java_type_imports(java_type) ==
    CASE java_type = "BigDecimal" -> << "import ", "java.math.", "BigDecimal", ";" >>
      [] java_type \in { "LocalDate", "LocalDateTime" } ->
             << "import ", "java.time.", java_type, ";" >>
      [] java_type \in { "Set", "List", "Map" } ->
             << "import ", "java.util.", java_type, ";" >>
      [] OTHER -> << >>

RECURSIVE CollectFrom(_, _, _)
\* the loop of collect_imports from the i-th field on; result holds the
\* imports seen so far in first-seen order
CollectFrom(fields, i, result) ==
    IF i > Len(fields) THEN result
    ELSE LET imp == java_type_imports(fields[i].type)
         IN  CollectFrom(fields, i + 1,
                         IF imp # << >> /\ imp \notin Range(result)
                         THEN Append(result, imp) ELSE result)

\* collect_imports with the final sort left out
collect_imports_Unsorted(fields) == CollectFrom(fields, 1, << >>)

\* utils.py lines 102-111
collect_imports(fields) == Sorted(CollectFrom(fields, 1, << >>))

\* utils.py lines 72-86; the "{col}" of the result is left for the caller
java_type_to_jpa_column(java_type, length) ==
    CASE java_type = "String" ->
             << "@Column(name = \"{col}\"", ", length = " >>
             \o (IF Truthy(length) THEN length ELSE << "2", "5", "5" >>) \o << ")" >>
      [] java_type = "BigDecimal" ->
             << "@Column(name = \"{col}\"", ", precision = 19, scale = 6", ")" >>
      [] java_type \in { "boolean", "Boolean" } ->
             << "@Column(name = \"{col}\"", ", nullable = false", ")" >>
      [] OTHER -> << "@Column(name = \"{col}\"", ")" >>


\* generate_read_service.py lines 48-51: select_cols
SelectCols(fields, table_alias) ==
    << table_alias \o << ".", "i", "d", " AS ", "i", "d" >> >>
    \o [i \in 1..Len(fields) |->
           table_alias \o << "." >> \o to_snake_case(fields[i].name) \o << " AS " >>
           \o fields[i].name]

\* lines 56-64: mapper_lines
MapperLines(entity_name, fields) ==
    << << "            final " >> \o entity_name \o << "Data data = new " >>
       \o entity_name \o << "Data();" >>,
       << "            data.", "set", "I", "d", "(", "rs.getLong", "(\"", "i", "d", "\")",
          ");" >> >>
    \o [i \in 1..Len(fields) |-> MapperLine(fields[i])]

\* lines 68-128: the implementation class (the fixed imports and methods
\* are abridged)
ReadImplJava(entity_name, package, imports_block, schema_str, table_name, alias, mapper_str) ==
    << "package " >> \o package \o << ".service;\n\n",
       "import java.sql.ResultSet;\nimport java.sql.SQLException;\n",
       "import java.util.Collection;\n" >>
    \o imports_block
    \o << "import org.springframework.dao.EmptyResultDataAccessException;\n...\n",
          "@Service\npublic class " >> \o entity_name
    \o << "ReadPlatformServiceImpl ... {\n", "            return \" " >> \o schema_str
    \o << " \"\n                + \"FROM " >> \o table_name \o << " " >> \o alias
    \o << " \";\n        }\n ... throws SQLException {\n" >> \o mapper_str
    \o << "\n            return data;\n        }\n    }\n}\n" >>

\* generate_read_impl(entity_name, package, fields, table_name, table_alias):
\* the class text and the lists it is joined from
generate_read_impl(entity_name, package, fields, table_name, table_alias) ==
    IF \E i \in 1..Len(fields) : fields[i].name = << >>
    THEN \* line 60: fname[0] of an empty name
         [raised |-> Raise("IndexError", << "string index out of range" >>)]
    ELSE
    LET imports == collect_imports(fields)
        imports_block == IF imports # << >> THEN Join(<< "\n" >>, imports) \o << "\n" >>
                         ELSE << >>
        select_cols == SelectCols(fields, table_alias)
        mapper_lines == MapperLines(entity_name, fields)
    IN  [raised |-> None,
         imports |-> imports,
         mapper_lines |-> mapper_lines,
         text |-> ReadImplJava(entity_name, package, imports_block,
                               Join(<< ", \"\n                + \"" >>, select_cols),
                               table_name, table_alias, Join(<< "\n" >>, mapper_lines))]

(***************************************************************************)
(* generate_entity.py: the entity class as the record of its field         *)
(* declarations, its constructor parameters, the change-check blocks of    *)
(* update, the locals and the constructor call of fromJson, and its        *)
(* getters                                                                 *)
(***************************************************************************)
\* lines 25-32: what follows name = "..." in the @Column annotation
EntityColumnExtras(ftype) ==
    IF ftype = "BigDecimal" THEN << ", precision = 19, scale = 6" >>
    ELSE IF ftype = "String" THEN << ", length = ", "2", "5", "5" >>
    ELSE IF ftype \in { "boolean", "Boolean" } THEN << ", nullable = false" >>
    ELSE << >>

\* lines 24-34: the annotation and the declaration of one field
EntityFieldDeclaration(f) ==
    [annotation |-> << "    @Column(name = \"" >> \o to_snake_case(f.name) \o << "\"" >>
                    \o EntityColumnExtras(f.type) \o << ")" >>,
     type |-> f.type,
     name |-> f.name]

\* lines 45-50: json_method
JsonMethod(ftype) ==
    IF ftype = "String" THEN "stringValueOfParameterNamed"
    ELSE IF ftype = "BigDecimal" THEN "bigDecimalValueOfParameterNamed"
    ELSE IF ftype = "boolean" THEN "booleanPrimitiveValueOfParameterNamed"
    ELSE IF ftype \in { "Integer", "int" } THEN "integerValueOfParameterNamed"
    ELSE IF ftype \in { "Long", "long" } THEN "longValueOfParameterNamed"
    ELSE "stringValueOfParameterNamed"

\* lines 52, 58 and 64: the types update has a change-check block for
HasUpdateCheck(f) == f.type \in { "boolean", "String", "BigDecimal" }

\* lines 53-69: the change-check block of one field
UpdateCheck(f) ==
    [field |-> f.name,
     test |-> IF f.type = "boolean" THEN "isChangeInBooleanParameterNamed"
              ELSE IF f.type = "String" THEN "isChangeInStringParameterNamed"
              ELSE "isChangeInBigDecimalParameterNamed",
     type |-> f.type,
     method |-> JsonMethod(f.type)]

\* lines 77-88: the local fromJson declares for one field
FromJsonLocal(f) ==
    [type |-> IF f.type \in { "String", "BigDecimal", "boolean" } THEN f.type
              ELSE IF f.type \in { "Integer", "int" } THEN "Integer"
              ELSE IF f.type \in { "Long", "long" } THEN "Long"
              ELSE "String",
     name |-> f.name,
     method |-> JsonMethod(f.type)]

\* lines 96-99: fname[0] raises IndexError on an empty name
EntityGetter(f) ==
    [type |-> f.type,
     name |-> (IF f.type = "boolean" THEN << "is" >> ELSE << "get" >>) \o cap(f.name)]

\* generate_entity(entity_name, package, fields), lines 13-140
generate_entity(entity_name, fields) ==
    IF \E i \in 1..Len(fields) : fields[i].name = << >>
    THEN [raised |-> Raise("IndexError", << "string index out of range" >>)]
    ELSE LET checked == SelectSeq(fields, HasUpdateCheck)
         IN  [raised |-> None,
              table_name |-> << "m", "_" >> \o to_snake_case(entity_name),
              imports |-> collect_imports(fields),
              declarations |-> [i \in 1..Len(fields) |-> EntityFieldDeclaration(fields[i])],
              constructor_params |-> [i \in 1..Len(fields) |->
                                         [type |-> fields[i].type, name |-> fields[i].name]],
              update_checks |-> [i \in 1..Len(checked) |-> UpdateCheck(checked[i])],
              from_json |-> [i \in 1..Len(fields) |-> FromJsonLocal(fields[i])],
              from_json_args |-> [i \in 1..Len(fields) |-> fields[i].name],
              getters |-> [i \in 1..Len(fields) |-> EntityGetter(fields[i])]]

\* lines 49-56 of generate_data.py: the bound of notExceedingLengthOf
ValidatorLength == << "2", "5", "5" >>

\* generate_validator, lines 50-74 of generate_data.py: the validation of one
\* field, for the types that have one
HasValidation(f) ==
    f.type \in { "String", "BigDecimal", "boolean", "Boolean", "Integer", "int" }

Validation(f) ==
    [field |-> f.name,
     type |-> IF f.type \in { "boolean", "Boolean" } THEN "Boolean"
              ELSE IF f.type \in { "Integer", "int" } THEN "Integer" ELSE f.type,
     checks |-> IF f.type = "String"
                THEN << ".notBlank()", ".notExceedingLengthOf(" >> \o ValidatorLength \o << ")" >>
                ELSE IF f.type = "BigDecimal" THEN << ".notNull()", ".zeroOrPositiveAmount()" >>
                ELSE IF f.type \in { "boolean", "Boolean" } THEN << ".ignoreIfNull()" >>
                ELSE << ".notNull()", ".integerGreaterThanZero()" >>]

\* generate_validator(entity_name, package, fields), lines 42-76
generate_validator(entity_name, fields) ==
    LET validated == SelectSeq(fields, HasValidation)
    IN  [raised |-> None,
         params |-> [i \in 1..Len(fields) |-> fields[i].name] \o << << "locale" >> >>,
         validations |-> [i \in 1..Len(validated) |-> Validation(validated[i])]]

(***************************************************************************)
(* Calls of the Fineract generators on bounded field lists                 *)
(***************************************************************************)
MaxFineractFields == 2

FineractTypePool ==
    { "String", "BigDecimal", "boolean", "Boolean", "LocalDate", "LocalDateTime", "Long",
      "UUID" }

\* the length of a field: absent or "100"
LengthPool == { None, << "1", "0", "0" >> }

\* unitPrice:<type>[:100], and unitPrice:String: whose length is empty
FineractFieldPool ==
    [name : { << "u", "n", "i", "t", "P", "r", "i", "c", "e" >> },
     type : FineractTypePool,
     length : LengthPool]
    \cup { [name |-> << "u", "n", "i", "t", "P", "r", "i", "c", "e" >>, type |-> "String",
            length |-> << >>] }

FineractEntityPool ==
    { << "P", "r", "o", "d", "u", "c", "t" >>,
      << "O", "r", "d", "e", "r", "I", "t", "e", "m" >> }

\* --author's default
Author == << "f", "i", "n", "e", "r", "a", "c", "t" >>

\* generate_liquibase.py line 105, generate_read_service.py line 143
DefaultTableName(entity_name) == << "m", "_" >> \o to_snake_case(entity_name)

\* generate_read_service.py line 144
DefaultTableAlias(entity_name) ==
    SubSeq(to_snake_case(entity_name), 1, IF Len(to_snake_case(entity_name)) < 2
                                          THEN Len(to_snake_case(entity_name)) ELSE 2)

InitFineract ==
    /\ pc = "call_fineract"
    /\ fnIn \in [entity_name : FineractEntityPool,
                 fields : SeqsUpTo(FineractFieldPool, MaxFineractFields)]
    /\ fnOut = << >>
    /\ spec = ProductSpec
    /\ lombok = FALSE
    /\ templatesDir = FullDir
    /\ placeholders = NoPlaceholders
    /\ nextArtifact = 0
    /\ rendered = {}
    /\ written = << >>
    /\ err = NoErr

\* generate_liquibase.py main(), lines 105-108
CallGenerateLiquibase ==
    /\ pc = "call_fineract"
    /\ fnOut' = [fn |-> "generate_liquibase", arg |-> 0,
                 out |-> generate_liquibase(fnIn.entity_name,
                                            DefaultTableName(fnIn.entity_name),
                                            fnIn.fields, Author)]
    /\ pc' = "returned"
    /\ UNCHANGED << spec, lombok, templatesDir, placeholders, nextArtifact, rendered,
                    written, err, fnIn >>

\* generate_read_service.py main(), lines 142-149
CallGenerateReadImpl ==
    /\ pc = "call_fineract"
    /\ fnOut' = [fn |-> "generate_read_impl", arg |-> 0,
                 out |-> generate_read_impl(fnIn.entity_name, BasePkg, fnIn.fields,
                                            DefaultTableName(fnIn.entity_name),
                                            DefaultTableAlias(fnIn.entity_name))]
    /\ pc' = "returned"
    /\ UNCHANGED << spec, lombok, templatesDir, placeholders, nextArtifact, rendered,
                    written, err, fnIn >>

\* java_type_to_jpa_column(type, length) of one field of the list
CallJpaColumn ==
    /\ pc = "call_fineract"
    /\ \E i \in 1..Len(fnIn.fields) :
          fnOut' = [fn |-> "java_type_to_jpa_column", arg |-> i,
                    out |-> [raised |-> None,
                             text |-> java_type_to_jpa_column(fnIn.fields[i].type,
                                                              fnIn.fields[i].length)]]
    /\ pc' = "returned"
    /\ UNCHANGED << spec, lombok, templatesDir, placeholders, nextArtifact, rendered,
                    written, err, fnIn >>

\* java_type_imports(type) of one field of the list
CallJavaTypeImports ==
    /\ pc = "call_fineract"
    /\ \E i \in 1..Len(fnIn.fields) :
          fnOut' = [fn |-> "java_type_imports", arg |-> i,
                    out |-> [raised |-> None,
                             text |-> java_type_imports(fnIn.fields[i].type)]]
    /\ pc' = "returned"
    /\ UNCHANGED << spec, lombok, templatesDir, placeholders, nextArtifact, rendered,
                    written, err, fnIn >>

\* collect_imports(fields)
CallCollectImports ==
    /\ pc = "call_fineract"
    /\ fnOut' = [fn |-> "collect_imports", arg |-> 0,
                 out |-> [raised |-> None, imports |-> collect_imports(fnIn.fields)]]
    /\ pc' = "returned"
    /\ UNCHANGED << spec, lombok, templatesDir, placeholders, nextArtifact, rendered,
                    written, err, fnIn >>

\* generate_crud_boilerplate.py main(), lines 656-658, for all_fields the
\* field list: extra_imports and the list it is joined from
CallExtraImports ==
    /\ pc = "call_fineract"
    /\ \E iter \in SetOrders(UsedTypes(fnIn.fields)) :
          fnOut' = [fn |-> "extra_imports", arg |-> 0,
                    out |-> [raised |-> None, imports |-> ExtraImportsList(iter),
                             text |-> ExtraImports(iter)]]
    /\ pc' = "returned"
    /\ UNCHANGED << spec, lombok, templatesDir, placeholders, nextArtifact, rendered,
                    written, err, fnIn >>

\* generate_entity.py main(), lines 184-185 (the lengths of the fields are not
\* part of parse_fields' result and are not read)
CallGenerateEntity ==
    /\ pc = "call_fineract"
    /\ fnOut' = [fn |-> "generate_entity", arg |-> 0,
                 out |-> generate_entity(fnIn.entity_name, fnIn.fields)]
    /\ pc' = "returned"
    /\ UNCHANGED << spec, lombok, templatesDir, placeholders, nextArtifact, rendered,
                    written, err, fnIn >>

\* generate_data.py main(): generate_validator on the parsed fields
CallGenerateValidator ==
    /\ pc = "call_fineract"
    /\ fnOut' = [fn |-> "generate_validator", arg |-> 0,
                 out |-> generate_validator(fnIn.entity_name, fnIn.fields)]
    /\ pc' = "returned"
    /\ UNCHANGED << spec, lombok, templatesDir, placeholders, nextArtifact, rendered,
                    written, err, fnIn >>

NextFineract ==
    \/ CallGenerateLiquibase
    \/ CallGenerateEntity
    \/ CallGenerateValidator
    \/ CallGenerateReadImpl
    \/ CallJpaColumn
    \/ CallJavaTypeImports
    \/ CallCollectImports
    \/ CallExtraImports

SpecFineract == InitFineract /\ [][NextFineract]_vars

\* the fields whose type tag the call that returned has looked up in a table
\* of the Fineract generators
LookedUp ==
    IF fnOut.fn = "extra_imports" THEN {}
    ELSE IF fnOut.arg = 0 THEN Range(fnIn.fields) ELSE { fnIn.fields[fnOut.arg] }

\* a tag that none of the type-mapping tables registers
Unregistered(tag) == tag \notin TYPE_MAP_Keys \cup JDBC_GETTER_Keys \cup ImportKeys

\* C11: looking up a type tag that no type-mapping table registers (storage
\* column type, import, row-extraction method, column annotation) raises an
\* error instead of returning output built from a default mapping.
C11_UnregisteredTagIsError ==
    (pc = "returned" /\ \E f \in LookedUp : Unregistered(f.type)) =>
        fnOut.out.raised # None

\* the attributes of a <column> element of the changelog
TypeAttr(col) == Between(col, "\" type=\"", "\"")
NullableAttr(col) ==
    Between(col, ">\n                <constraints nullable=\"", "\"/>\n            </column>")
HasDefault(col) == " defaultValueNumeric=\"" \in Range(col)
DefaultAttr(col) == Between(col, " defaultValueNumeric=\"", "\"")

\* the declared length of a field, 255 when none is given
LengthOr255(f) == IF f.length \in { None, << >> } THEN << "2", "5", "5" >> ELSE f.length

\* C20: the storage column type of a field is a function of its type tag and
\* declared length: a String column is VARCHAR of the declared length, 255
\* when none is given; a BigDecimal column is DECIMAL(19,6) whatever the
\* length; a boolean/Boolean column is TINYINT(1), non-nullable, with numeric
\* default 0; every other column is nullable with no default.  The column
\* annotation of java_type_to_jpa_column carries the same length, precision
\* and nullability.
C20_ColumnTypeOfTagAndLength ==
    /\ (pc = "returned" /\ fnOut.fn = "generate_liquibase") =>
          \A k \in 1..Len(fnIn.fields) :
              LET f == fnIn.fields[k]
                  col == fnOut.out.columns_xml[k + 1]
              IN  /\ Contains(fnOut.out.text, col)
                  /\ f.type = "String" =>
                        TypeAttr(col) = << "VARCHAR(" >> \o LengthOr255(f) \o << ")" >>
                  /\ f.type = "BigDecimal" => TypeAttr(col) = << "DECIMAL(19,6)" >>
                  /\ IF f.type \in { "boolean", "Boolean" }
                     THEN /\ TypeAttr(col) = << "TINYINT(1)" >>
                          /\ NullableAttr(col) = << "false" >>
                          /\ HasDefault(col) /\ DefaultAttr(col) = << "0" >>
                     ELSE NullableAttr(col) = << "true" >> /\ ~HasDefault(col)
                  /\ \A j \in 1..Len(fnIn.fields) :
                        (fnIn.fields[j].type = f.type /\ fnIn.fields[j].length = f.length)
                            => TypeAttr(fnOut.out.columns_xml[j + 1]) = TypeAttr(col)
    /\ (pc = "returned" /\ fnOut.fn = "java_type_to_jpa_column") =>
          LET f == fnIn.fields[fnOut.arg]
              ann == fnOut.out.text
          IN  /\ f.type = "String" =>
                    ann = << "@Column(name = \"{col}\"", ", length = " >> \o LengthOr255(f)
                          \o << ")" >>
              /\ f.type = "BigDecimal" => ", precision = 19, scale = 6" \in Range(ann)
              /\ (", nullable = false" \in Range(ann)) <=> f.type \in { "boolean", "Boolean" }

\* a changelog was generated for a String field with a declared length and a
\* Boolean field
C20_Witness ==
    /\ pc = "returned" /\ fnOut.fn = "generate_liquibase"
    /\ \E k, j \in 1..Len(fnIn.fields) :
          /\ fnIn.fields[k].type = "String" /\ fnIn.fields[k].length = << "1", "0", "0" >>
          /\ TypeAttr(fnOut.out.columns_xml[k + 1]) = << "VARCHAR(", "1", "0", "0", ")" >>
          /\ fnIn.fields[j].type = "Boolean"

(***************************************************************************)
(* Claims on the accessor and argument-forwarding placeholders of main()   *)
(***************************************************************************)
\* the lines of a text
Lines(t) == SplitOn(t, "\n")

\* the line is an accessor of field f: a getter or a setter named after it
IsGetterOf(line, f) == Contains(line, << "get" >> \o cap(f.name) \o << "() { return " >>)
IsSetterOf(line, f) == Contains(line, << "set" >> \o cap(f.name) \o << "(" >>)

\* C12: with the Lombok switch set, the getter/setter-body placeholders of
\* the domain model and of the persistence entity are the empty string;
\* without it, each holds one accessor per field, the id first and then the
\* declared fields in order.
C12_LombokEmptiesAccessors ==
    Derived =>
        IF lombok
        THEN /\ placeholders["domain_getters"] = << >>
             /\ placeholders["jpa_getters_setters"] = << >>
        ELSE /\ Len(Lines(placeholders["domain_getters"])) = Len(AllFields(spec))
             /\ \A i \in 1..Len(AllFields(spec)) :
                   IsGetterOf(Lines(placeholders["domain_getters"])[i], AllFields(spec)[i])
             /\ Len(Lines(placeholders["jpa_getters_setters"])) = 2 * Len(AllFields(spec))
             /\ \A i \in 1..Len(AllFields(spec)) :
                   /\ IsGetterOf(Lines(placeholders["jpa_getters_setters"])[2 * i - 1],
                                 AllFields(spec)[i])
                   /\ IsSetterOf(Lines(placeholders["jpa_getters_setters"])[2 * i],
                                 AllFields(spec)[i])

\* C12 for the domain model alone
C12_DomainGetters ==
    Derived =>
        IF lombok
        THEN placeholders["domain_getters"] = << >>
        ELSE /\ Len(Lines(placeholders["domain_getters"])) = Len(AllFields(spec))
             /\ \A i \in 1..Len(AllFields(spec)) :
                   IsGetterOf(Lines(placeholders["domain_getters"])[i], AllFields(spec)[i])

\* the keys of the placeholders that forward one argument per field
ArgumentKeys == Range(ForwardingKeys) \cup { "all_names_csv" }

\* the arguments of a forwarding placeholder
ArgsOf(key) == SplitOn(placeholders[key], ", ")

\* the relationship entries of the spec that become fields
RelationshipFields(s) == SelectSeq(s.relationships, Resolvable)

\* the names an argument list is to follow: the id, the declared fields, the
\* relationship fields
ForwardingOrder(s) ==
    [i \in 1..Len(AllFields(s)) |-> AllFields(s)[i].name]
    \o [i \in 1..Len(RelationshipFields(s)) |-> RelationshipFields(s)[i].name]

\* the argument refers to the field called name; the id slot may also hold
\* null (an id the store generates) or the local variable id
RefersTo(arg, name, k) ==
    \/ Contains(arg, name)
    \/ Contains(arg, cap(name))
    \/ k = 1 /\ arg \in { << "null" >>, << "i", "d" >> }

\* C13: in every argument-forwarding placeholder the arguments are the id,
\* then the declared fields in spec order, then the relationship fields in
\* declaration order; all these placeholders have the same length and the
\* same field at each position.
C13_ForwardingOrder ==
    Derived =>
        \A key \in ArgumentKeys :
            /\ Len(ArgsOf(key)) = Len(ForwardingOrder(spec))
            /\ \A k \in 1..Len(ArgsOf(key)) :
                  RefersTo(ArgsOf(key)[k], ForwardingOrder(spec)[k], k)

\* C13 without the relationship fields: the id, then the declared fields
C13_ForwardingOrderOfFields ==
    Derived =>
        \A key \in ArgumentKeys :
            /\ Len(ArgsOf(key)) = Len(AllFields(spec))
            /\ \A k \in 1..Len(ArgsOf(key)) :
                  RefersTo(ArgsOf(key)[k], AllFields(spec)[k].name, k)

(***************************************************************************)
(* Claims on the relationship fields and accessors of tmpl_jpa_entity      *)
(***************************************************************************)
LacksNameOrTarget(r) == ~Truthy(r.name) \/ ~Truthy(r.target)

\* the list without its i-th entry
RemoveAt(s, i) == SubSeq(s, 1, i - 1) \o SubSeq(s, i + 1, Len(s))

\* C14: a relationship entry lacking a name or a target is skipped: it adds
\* no field, no annotation, no import and no accessor, and the fields,
\* imports and accessors of the other entries are those of the list without
\* the skipped entry.
C14_IncompleteEntrySkipped ==
    pc = "returned" =>
        \A i \in 1..Len(fnIn.relationships) :
            LacksNameOrTarget(fnIn.relationships[i]) =>
                /\ fnOut = JpaEntityRelationships(fnIn.pkg, RemoveAt(fnIn.relationships, i),
                                                  fnIn.use_lombok)
                /\ Len(fnOut.rel_fields_src) < Len(fnIn.relationships)
                /\ Len(fnOut.target_imports) < Len(fnIn.relationships)
                /\ Len(SplitOn(fnOut.rel_getters, "\n")) < Len(fnIn.relationships)
                /\ Len(SplitOn(fnOut.rel_setters, "\n")) < Len(fnIn.relationships)

\* an entry without a target next to a resolved one, accessors written out:
\* one field, one import, one getter
C14_Witness ==
    /\ pc = "returned" /\ ~fnIn.use_lombok
    /\ Len(fnIn.relationships) = 2
    /\ fnIn.relationships[1].target = None
    /\ Resolvable(fnIn.relationships[2])
    /\ Len(fnOut.rel_fields_src) = 1
    /\ Len(fnOut.target_imports) = 1
    /\ Len(SplitOn(fnOut.rel_getters, "\n")) = 1

\* the type a relationship field is declared with in its source
DeclaredType(src) == Between(src, "    private ", " ")
\* the return type of a getter and the parameter type of a setter
GetterType(line) == Between(line, "        public ", " ")
SetterType(line) == Between(line, "(", " ")

\* C15: a resolved ONE_TO_MANY or MANY_TO_MANY relationship is a field of
\* type Set<TargetEntity> initialised to a LinkedHashSet, a ONE_TO_ONE is a
\* single TargetEntity reference, and the declared type, the getter's return
\* type and the setter's parameter type of one relationship agree.
C15_RelationshipFieldTypes ==
    pc = "returned" =>
        LET rs == ResolvedRels(fnIn.relationships)
        IN  /\ Len(fnOut.rel_fields_src) = Len(rs)
            /\ \A k \in 1..Len(rs) :
                  LET src == fnOut.rel_fields_src[k]
                  IN  /\ IF RelType(rs[k]) = "ONE_TO_ONE"
                         THEN /\ DeclaredType(src) = rs[k].target \o << "Entity" >>
                              /\ " = new java.util.LinkedHashSet<>()" \notin Range(src)
                         ELSE /\ DeclaredType(src) =
                                     << "Set<" >> \o rs[k].target \o << "Entity>" >>
                              /\ " = new java.util.LinkedHashSet<>()" \in Range(src)
                      /\ ~fnIn.use_lombok =>
                            /\ Len(SplitOn(fnOut.rel_getters, "\n")) = Len(rs)
                            /\ Len(SplitOn(fnOut.rel_setters, "\n")) = Len(rs)
                            /\ GetterType(SplitOn(fnOut.rel_getters, "\n")[k])
                                   = DeclaredType(src)
                            /\ SetterType(SplitOn(fnOut.rel_setters, "\n")[k])
                                   = DeclaredType(src)

\* a collection and a single reference resolved together, accessors written
\* out
C15_Witness ==
    /\ pc = "returned" /\ ~fnIn.use_lombok
    /\ Len(fnOut.rel_fields_src) = 2
    /\ RelType(fnIn.relationships[1]) = "ONE_TO_MANY"
    /\ RelType(fnIn.relationships[2]) = "ONE_TO_ONE"
    /\ GetterType(SplitOn(fnOut.rel_getters, "\n")[1]) = << "Set<", "Tag", "Entity>" >>
    /\ GetterType(SplitOn(fnOut.rel_getters, "\n")[2]) = << "User", "Entity" >>

\* the rearrangements of a list
Rearrangements(s) ==
    { [i \in 1..Len(s) |-> s[p[i]]] :
        p \in { q \in [1..Len(s) -> 1..Len(s)] : \A i, j \in 1..Len(s) : q[i] = q[j] => i = j } }

\* the import blocks the aggregation fn can return for a field list: one for
\* collect_imports, one per iteration order of used_types for extra_imports
ImportBlocks(fn, fields) ==
    IF fn = "collect_imports" THEN { collect_imports(fields) }
    ELSE { ExtraImportsList(iter) : iter \in SetOrders(UsedTypes(fields)) }

\* the import statement the aggregation fn has for a type, << >> when none
ImportOf(fn, type) ==
    IF fn = "collect_imports" THEN java_type_imports(type)
    ELSE IF JAVA_TYPE_IMPORTS(type) = None THEN << >> ELSE JAVA_TYPE_IMPORTS(type)

\* C16: the aggregated import block of a field list has no duplicate
\* statement and is sorted; appending a field whose type needs an import
\* already in the block, or no import, leaves the block unchanged; and the
\* block is the same for every order of the fields.
C16_ImportBlock ==
    (pc = "returned" /\ fnOut.fn \in { "collect_imports", "extra_imports" }) =>
        LET block == fnOut.out.imports
        IN  /\ \A i, j \in 1..Len(block) : block[i] = block[j] => i = j
            /\ \A i \in 1..(Len(block) - 1) : StrLess(block[i], block[i + 1])
            /\ \A type \in FineractTypePool :
                  (ImportOf(fnOut.fn, type) \in Range(block) \cup { << >> }) =>
                      ImportBlocks(fnOut.fn,
                                   Append(fnIn.fields,
                                          [name |-> << "s", "k", "u" >>, type |-> type,
                                           length |-> None]))
                          = { block }
            /\ \A other \in Rearrangements(fnIn.fields) :
                  ImportBlocks(fnOut.fn, other) = { block }

\* collect_imports on a LocalDateTime field followed by a LocalDate field: the
\* block has their two imports, in the other order
C16_Witness ==
    /\ pc = "returned" /\ fnOut.fn = "collect_imports"
    /\ Len(fnIn.fields) = 2
    /\ fnIn.fields[1].type = "LocalDateTime" /\ fnIn.fields[2].type = "LocalDate"
    /\ fnOut.out.imports = << << "import ", "java.time.", "LocalDate", ";" >>,
                              << "import ", "java.time.", "LocalDateTime", ";" >> >>

(***************************************************************************)
(* Claims on the files a run writes                                        *)
(***************************************************************************)
\* the paths of the files written so far
WrittenPaths == { written[i].path : i \in 1..Len(written) }

\* the paths of the 17 artifacts of an entity
ArtifactPaths(entity) == { ArtifactPath(entity, k) : k \in 1..Len(Artifacts) }

\* C17: the files a successful run writes are the 17 artifacts of the entity
\* name, whatever the fields, the relationships and the Lombok switch, and no
\* other file.
C17_FixedArtifactSet ==
    pc = "done" => WrittenPaths = ArtifactPaths(spec.entity)

\* C17 with the README counted: the 17 artifacts and README-GENERATED.md
C17_ArtifactsAndReadme ==
    pc = "done" =>
        /\ WrittenPaths = ArtifactPaths(spec.entity) \cup { ReadmePath }
        /\ Len(written) = Len(Artifacts) + 1

\* the layer segments an artifact may be written in
LayerSegments ==
    { "domain/model", "domain/repository", "infrastructure/persistence",
      "application/service", "presentation/dto", "presentation/rest",
      "application/exception" }

\* C18: every artifact is written in one of the layer segments domain/model,
\* domain/repository, infrastructure/persistence, application/service,
\* presentation/dto, presentation/rest, application/exception of the package
\* directory.
C18_ArtifactLayers ==
    \A i \in 1..Len(written) :
        written[i].path # ReadmePath => written[i].path.layer \in LayerSegments

\* C18 with the segment of the domain service added
C18_ArtifactLayersAndDomainService ==
    \A i \in 1..Len(written) :
        written[i].path # ReadmePath =>
            written[i].path.layer \in LayerSegments \cup { "domain/service" }

(***************************************************************************)
(* Two runs of main() on the same spec, switch and templates directory     *)
(***************************************************************************)
\* what a finished run has produced
RunOutput == << placeholders, written >>

\* the generator is started again after a run that finished: same arguments,
\* same spec file, the templates directory as the first run left it
Rerun ==
    /\ pc = "done"
    /\ fnOut = << >>
    /\ fnOut' = RunOutput
    /\ pc' = "validate"
    /\ placeholders' = NoPlaceholders
    /\ nextArtifact' = 0
    /\ rendered' = {}
    /\ written' = << >>
    /\ err' = NoErr
    /\ UNCHANGED << spec, lombok, templatesDir, fnIn >>

NextRerun ==
    \/ Validate
    \/ ResolveTemplates
    \/ Derive
    \/ RenderAndWrite
    \/ WriteReadme
    \/ Rerun

\* the runs that are repeated: entity Product, all templates present
InitRerun ==
    /\ pc = "validate"
    /\ spec \in [entity : { Product }, id : IdPool,
                  fields : SeqsUpTo(FieldPool, MaxFields),
                  relationships : SeqsUpTo(MainRelPool, MaxRels)]
    /\ lombok \in BOOLEAN
    /\ templatesDir = FullDir
    /\ placeholders = NoPlaceholders
    /\ nextArtifact = 0
    /\ rendered = {}
    /\ written = << >>
    /\ err = NoErr
    /\ fnIn = << >>
    /\ fnOut = << >>

SpecRerun == InitRerun /\ [][NextRerun]_vars

InSecondRun == fnOut # << >>

\* C19: a second run on the same spec, Lombok switch and templates derives
\* the placeholder map of the first run and writes the same files with the
\* same contents in the same order, whatever the order in which either run
\* iterates its set of types.
C19_Deterministic ==
    InSecondRun =>
        /\ Derived => placeholders = fnOut[1]
        /\ Len(written) <= Len(fnOut[2])
        /\ written = SubSeq(fnOut[2], 1, Len(written))
        /\ pc = "done" => written = fnOut[2]

\* a second run finished on a spec with two types that need an import, which
\* its set of types can yield in either order
C19_Witness ==
    /\ InSecondRun /\ pc = "done"
    /\ Len(written) = Len(Artifacts) + 1
    /\ Cardinality(UsedTypes(AllFields(spec)) \cap { "BigDecimal", "UUID" }) = 2
    /\ Len(SplitOn(placeholders["extra_imports"], "\n")) = 2

(***************************************************************************)
(* Calls of the naming functions.  fnIn is the name, fnOut the function    *)
(* called and the str it returned.                                         *)
(***************************************************************************)
MaxNameLen == 5

\* one lowercase letter, two capitals, a digit and the underscore
NameAlphabet == { "a", "B", "C", "1", "_" }

fooBar == << "f", "o", "o", "B", "a", "r" >>
FooBARBaz == << "F", "o", "o", "B", "A", "R", "B", "a", "z" >>
SavingsProduct == << "S", "a", "v", "i", "n", "g", "s", "P", "r", "o", "d", "u", "c", "t" >>

NamePool == SeqsUpTo(NameAlphabet, MaxNameLen) \cup { fooBar, FooBARBaz, SavingsProduct }

InitNames ==
    /\ pc = "call_naming"
    /\ fnIn \in NamePool
    /\ fnOut = << >>
    /\ spec = ProductSpec
    /\ lombok = FALSE
    /\ templatesDir = FullDir
    /\ placeholders = NoPlaceholders
    /\ nextArtifact = 0
    /\ rendered = {}
    /\ written = << >>
    /\ err = NoErr

\* utils.to_snake_case(name)
CallToSnakeCase ==
    /\ pc = "call_naming"
    /\ fnOut' = [fn |-> "to_snake_case", out |-> to_snake_case(fnIn)]
    /\ pc' = "returned"
    /\ UNCHANGED << spec, lombok, templatesDir, placeholders, nextArtifact, rendered,
                    written, err, fnIn >>

\* utils.to_upper_snake(name)
CallToUpperSnake ==
    /\ pc = "call_naming"
    /\ fnOut' = [fn |-> "to_upper_snake", out |-> to_upper_snake(fnIn)]
    /\ pc' = "returned"
    /\ UNCHANGED << spec, lombok, templatesDir, placeholders, nextArtifact, rendered,
                    written, err, fnIn >>

\* generate_crud_boilerplate.camel_to_snake(name)
CallCamelToSnake ==
    /\ pc = "call_naming"
    /\ fnOut' = [fn |-> "camel_to_snake", out |-> camel_to_snake(fnIn)]
    /\ pc' = "returned"
    /\ UNCHANGED << spec, lombok, templatesDir, placeholders, nextArtifact, rendered,
                    written, err, fnIn >>

NextNames ==
    \/ CallToSnakeCase
    \/ CallToUpperSnake
    \/ CallCamelToSnake

SpecNames == InitNames /\ [][NextNames]_vars

\* s[j] is a capital that follows a lowercase letter or a digit
LowerToUpper(s, j) ==
    j >= 2 /\ s[j] \in UpperChars /\ s[j - 1] \in LowerChars \cup DigitChars

\* s[j] is the last capital of an uppercase run, a lowercase letter follows
\* it and a character precedes it
LastCapitalOfRun(s, j) ==
    j >= 2 /\ j + 1 <= Len(s) /\ s[j] \in UpperChars /\ s[j + 1] \in LowerChars

RECURSIVE Underscored(_, _)
\* s from position j on, with one underscore before each capital of the two
\* kinds above
Underscored(s, j) ==
    IF j > Len(s) THEN << >>
    ELSE (IF LowerToUpper(s, j) \/ LastCapitalOfRun(s, j) THEN << "_", s[j] >>
          ELSE << s[j] >>) \o Underscored(s, j + 1)

\* C21: to_snake_case puts an underscore at every lowercase-or-digit to
\* uppercase transition and before the last capital of an uppercase run that
\* a lowercase letter follows, then lowercases; its output has no uppercase
\* letter, it is idempotent, to_upper_snake is the uppercase of to_snake_case,
\* and camel_to_snake returns what to_snake_case returns.
C21_SnakeCase ==
    pc = "returned" /\ fnOut.fn \in { "to_snake_case", "to_upper_snake", "camel_to_snake" } =>
        /\ fnOut.fn = "to_snake_case" =>
              /\ fnOut.out = LowerStr(Underscored(fnIn, 1))
              /\ Range(fnOut.out) \cap UpperChars = {}
              /\ to_snake_case(fnOut.out) = fnOut.out
              /\ fnIn = fooBar => fnOut.out = << "f", "o", "o", "_", "b", "a", "r" >>
              /\ fnIn = FooBARBaz =>
                    fnOut.out = << "f", "o", "o", "_", "b", "a", "r", "_", "b", "a", "z" >>
        /\ fnOut.fn = "to_upper_snake" => fnOut.out = UpperStr(to_snake_case(fnIn))
        /\ fnOut.fn = "camel_to_snake" => fnOut.out = to_snake_case(fnIn)

\* to_snake_case has returned for FooBARBaz, or for a name with a digit
\* before a capital
C21_Witness ==
    /\ pc = "returned"
    /\ fnOut.fn = "to_snake_case"
    /\ \/ fnIn = FooBARBaz
       \/ \E j \in 2..Len(fnIn) : fnIn[j] \in UpperChars /\ fnIn[j - 1] \in DigitChars

(***************************************************************************)
(* Failure of a render step of main()                                      *)
(***************************************************************************)
\* main() run once on the inputs that reach its render steps: a valid
\* entity name and a templates directory that holds every template
SpecRenderSteps == InitRerun /\ [][Next]_vars

\* the template of the render/write pair that main() is about to run
CurrentTemplate == Artifacts[nextArtifact].tpl

create == << "c", "r", "e", "a", "t", "e" >>
update == << "u", "p", "d", "a", "t", "e" >>
delete == << "d", "e", "l", "e", "t", "e" >>
approve == << "a", "p", "p", "r", "o", "v", "e" >>

Method(name, params) == [name |-> name, params |-> params]

\* generate_write_interface, lines 15-22: the method declared for one action
InterfaceMethod(action) ==
    IF action = create THEN Method(create, << "JsonCommand" >>)
    ELSE IF action = update THEN Method(update, << "Long", "JsonCommand" >>)
    ELSE IF action = delete THEN Method(delete, << "Long" >>)
    ELSE Method(action, << "Long", "JsonCommand" >>)

\* generate_write_interface(entity_name, package, actions), lines 12-34
generate_write_interface(entity_name, actions) ==
    [raised |-> None,
     name |-> entity_name \o << "WritePlatformService" >>,
     methods |-> [i \in 1..Len(actions) |-> InterfaceMethod(actions[i])]]

\* the actions generate_write_impl has a branch for (lines 43, 66, 86)
ImplementedAction(action) == action \in { create, update, delete }

\* lines 46, 69 and 89: the method one branch implements
ImplMethod(action) ==
    IF action = create THEN Method(create, << "JsonCommand" >>)
    ELSE IF action = update THEN Method(update, << "Long", "JsonCommand" >>)
    ELSE Method(delete, << "Long" >>)

\* generate_write_impl(entity_name, package, actions), lines 37-141: one
\* @Override method per action that has a branch, the others are passed over
generate_write_impl(entity_name, actions) ==
    LET done == SelectSeq(actions, ImplementedAction)
    IN  [raised |-> None,
         name |-> entity_name \o << "WritePlatformServiceImpl" >>,
         implements |-> entity_name \o << "WritePlatformService" >>,
         methods |-> [i \in 1..Len(done) |-> ImplMethod(done[i])]]

\* str.capitalize()
Capitalize(s) ==
    IF s = << >> THEN s ELSE << UpperChar(s[1]) >> \o LowerStr(Tail(s))

\* generate_command_handler, lines 150-157: the method of the service that
\* processCommand calls, with the types of its arguments (command is a
\* JsonCommand, command.entityId() a Long)
ServiceCall(action) ==
    IF action = create THEN Method(create, << "JsonCommand" >>)
    ELSE IF action = update THEN Method(update, << "Long", "JsonCommand" >>)
    ELSE IF action = delete THEN Method(delete, << "Long" >>)
    ELSE Method(action, << "Long", "JsonCommand" >>)

\* generate_command_handler(entity_name, package, action), lines 144-183
generate_command_handler(entity_name, action) ==
    [raised |-> None,
     class_name |-> Capitalize(action) \o entity_name \o << "CommandHandler" >>,
     entity |-> to_upper_snake(entity_name),
     action |-> UpperStr(action),
     service_call |-> ServiceCall(action)]

\* generate_api_resource(entity_name, package, api_path), lines 12-14, 74 and
\* 92: the argument of the two validateHasReadPermission calls
generate_api_resource(entity_name, api_path) ==
    [raised |-> None,
     path |-> << "/v1/" >> \o api_path,
     read_permissions |-> << to_upper_snake(entity_name), to_upper_snake(entity_name) >>]

\* generate_liquibase.py lines 63-70: the entity_name column of the four
\* permissions the changelog inserts (their code is <ACTION>_ and the same
\* str)
PermissionEntities(entity_name) ==
    [i \in 1..Len(PermissionActions) |-> EntityUpper(entity_name)]

MaxActions == 2

ActionPool == { create, update, delete, approve }

WriteEntityPool == { Product, SavingsProduct }

InitWrite ==
    /\ pc = "call_write"
    /\ fnIn \in [entity_name : WriteEntityPool,
                 actions : SeqsUpTo(ActionPool, MaxActions) \ { << >> }]
    /\ fnOut = << >>
    /\ spec = ProductSpec
    /\ lombok = FALSE
    /\ templatesDir = FullDir
    /\ placeholders = NoPlaceholders
    /\ nextArtifact = 0
    /\ rendered = {}
    /\ written = << >>
    /\ err = NoErr

\* generate_write_service.py main(), line 197
CallGenerateWriteInterface ==
    /\ pc = "call_write"
    /\ fnOut' = [fn |-> "generate_write_interface", arg |-> 0,
                 out |-> generate_write_interface(fnIn.entity_name, fnIn.actions)]
    /\ pc' = "returned"
    /\ UNCHANGED << spec, lombok, templatesDir, placeholders, nextArtifact, rendered,
                    written, err, fnIn >>

\* generate_write_service.py main(), line 198
CallGenerateWriteImpl ==
    /\ pc = "call_write"
    /\ fnOut' = [fn |-> "generate_write_impl", arg |-> 0,
                 out |-> generate_write_impl(fnIn.entity_name, fnIn.actions)]
    /\ pc' = "returned"
    /\ UNCHANGED << spec, lombok, templatesDir, placeholders, nextArtifact, rendered,
                    written, err, fnIn >>

\* generate_write_service.py main(), lines 209-210: the handler of one action
CallGenerateCommandHandler ==
    /\ pc = "call_write"
    /\ \E i \in 1..Len(fnIn.actions) :
          fnOut' = [fn |-> "generate_command_handler", arg |-> i,
                    out |-> generate_command_handler(fnIn.entity_name, fnIn.actions[i])]
    /\ pc' = "returned"
    /\ UNCHANGED << spec, lombok, templatesDir, placeholders, nextArtifact, rendered,
                    written, err, fnIn >>

\* generate_api_resource.py main(), lines 55-56
CallGenerateApiResource ==
    /\ pc = "call_write"
    /\ fnOut' = [fn |-> "generate_api_resource", arg |-> 0,
                 out |-> generate_api_resource(fnIn.entity_name,
                                               to_camel_case(fnIn.entity_name) \o << "s" >>)]
    /\ pc' = "returned"
    /\ UNCHANGED << spec, lombok, templatesDir, placeholders, nextArtifact, rendered,
                    written, err, fnIn >>

NextWrite ==
    \/ CallGenerateWriteInterface
    \/ CallGenerateWriteImpl
    \/ CallGenerateCommandHandler
    \/ CallGenerateApiResource

SpecWrite == InitWrite /\ [][NextWrite]_vars

\* C23: the entity identifier of the permissions the changelog registers is
\* the identifier of the command handlers' @CommandType(entity = ...) and of
\* the API resource's validateHasReadPermission(...), for every entity name.
C23_PermissionEntityAgrees ==
    pc = "returned" =>
        /\ fnOut.fn = "generate_command_handler" =>
              \A i \in 1..Len(PermissionActions) :
                  PermissionEntities(fnIn.entity_name)[i] = fnOut.out.entity
        /\ fnOut.fn = "generate_api_resource" =>
              \A i \in 1..Len(PermissionActions), j \in 1..2 :
                  PermissionEntities(fnIn.entity_name)[i] = fnOut.out.read_permissions[j]

\* C25: the methods the service interface declares are the methods the
\* implementation implements, and each command handler calls a method that
\* both have, whatever the action names.
C25_InterfaceAndImplAgree ==
    pc = "returned" =>
        LET declared == Range(generate_write_interface(fnIn.entity_name, fnIn.actions).methods)
            implemented == Range(generate_write_impl(fnIn.entity_name, fnIn.actions).methods)
        IN  /\ fnOut.fn = "generate_write_interface" => Range(fnOut.out.methods) = implemented
            /\ fnOut.fn = "generate_write_impl" => Range(fnOut.out.methods) = declared
            /\ fnOut.fn = "generate_command_handler" =>
                  fnOut.out.service_call \in declared \cap implemented

(***************************************************************************)
(* The id declaration of the persistence entity                            *)
(***************************************************************************)
\* the run treats the id as generated: the request record has the fields
\* without the id, and the create path passes null as the id
TreatedAsGenerated ==
    /\ placeholders["dto_request_components"] = ComponentsCsv(spec.fields)
    /\ placeholders["create_id_arg"] = << "null" >>
    /\ placeholders["request_all_args"][1] = "null"

\* C24: whenever the run treats the id as generated, the id declaration of
\* the persistence entity carries @GeneratedValue, whatever the id's type.
C24_GeneratedIdAnnotated ==
    (Derived /\ TreatedAsGenerated) =>
        LET decl == Lines(placeholders["jpa_fields_decls"])
        IN  /\ decl[1] = << "    @Id" >>
            /\ decl[2] = << GeneratedValueLine >>

(***************************************************************************)
(* The --fields parsers of the Fineract generators (utils.py lines 8-37).  *)
(* A --fields str is a sequence of lexemes: the characters of the names,   *)
(* the separators ":" and ",", blanks, and type tags as chunks.  A parser  *)
(* returns the record of the exception it raised (None when it returned)   *)
(* and the list it returned.                                               *)
(***************************************************************************)
RECURSIVE split(_, _)
\* s.split(sep) for a one-lexeme sep: one piece more than sep occurs in s
split(s, sep) ==
    IF \E i \in 1..Len(s) : s[i] = sep
    THEN LET i == IndexOf(s, sep)
         IN  << SubSeq(s, 1, i - 1) >> \o split(SubSeq(s, i + 1, Len(s)), sep)
    ELSE << s >>

RECURSIVE lstrip(_)
lstrip(s) == IF s # << >> /\ s[1] \in WhitespaceLex THEN lstrip(Tail(s)) ELSE s

\* str.strip()
strip(s) == lstrip(rstrip(s))

\* one piece parsed without line 18: the type keeps what follows its colon
ParseField_KeepsLength(piece) ==
    LET f == strip(piece)
    IN  IF ~(\E i \in 1..Len(f) : f[i] = ":")
        THEN [raised |-> Raise("ValueError", << "Invalid field format: '" >> \o f
                                             \o << "'. Expected 'name:Type'" >>),
              field |-> << >>]
        ELSE LET i == IndexOf(f, ":")
             IN  [raised |-> None,
                  field |-> << strip(SubSeq(f, 1, i - 1)), strip(SubSeq(f, i + 1, Len(f))) >>]

\* parse_fields, lines 13-20: one piece of the --fields str
ParseField(piece) ==
    LET f == strip(piece)
    IN  IF ~(\E i \in 1..Len(f) : f[i] = ":")
        THEN [raised |-> Raise("ValueError", << "Invalid field format: '" >> \o f
                                             \o << "'. Expected 'name:Type'" >>),
              field |-> << >>]
        ELSE LET i == IndexOf(f, ":")
                 name == SubSeq(f, 1, i - 1)
                 typ == split(SubSeq(f, i + 1, Len(f)), ":")[1]
             IN  [raised |-> None, field |-> << strip(name), strip(typ) >>]

\* one piece parsed by a parser that insists on the length
ParseFieldWithLength_LengthRequired(piece) ==
    LET raw == split(strip(piece), ":")
        parts == [i \in 1..Len(raw) |-> strip(raw[i])]
    IN  IF Len(parts) < 3
        THEN [raised |-> Raise("ValueError", << "Invalid field: '" >> \o piece
                                             \o << "'. Expected 'name:Type[:length]'" >>),
              field |-> << >>]
        ELSE [raised |-> None, field |-> << parts[1], parts[2], parts[3] >>]

\* parse_fields_with_length, lines 30-36: one piece of the --fields str
ParseFieldWithLength(piece) ==
    LET raw == split(strip(piece), ":")
        parts == [i \in 1..Len(raw) |-> strip(raw[i])]
    IN  IF Len(parts) < 2
        THEN [raised |-> Raise("ValueError", << "Invalid field: '" >> \o piece
                                             \o << "'. Expected 'name:Type[:length]'" >>),
              field |-> << >>]
        ELSE [raised |-> None,
              field |-> << parts[1], parts[2], IF Len(parts) > 2 THEN parts[3] ELSE None >>]

RECURSIVE ParseLoop(_, _, _, _)
\* the for loop of either parser over the pieces from index i: the first
\* piece that raises ends the call
ParseLoop(ParseOne(_), pieces, i, result) ==
    IF i > Len(pieces) THEN [raised |-> None, fields |-> result]
    ELSE LET one == ParseOne(pieces[i])
         IN  IF one.raised # None THEN [raised |-> one.raised, fields |-> << >>]
             ELSE ParseLoop(ParseOne, pieces, i + 1, Append(result, one.field))

\* parse_fields(fields_str), lines 8-21
parse_fields(fields_str) ==
    IF fields_str = << >> THEN [raised |-> None, fields |-> << >>]
    ELSE ParseLoop(ParseField, split(fields_str, ","), 1, << >>)

\* parse_fields_with_length(fields_str), lines 24-37
parse_fields_with_length(fields_str) ==
    IF fields_str = << >> THEN [raised |-> None, fields |-> << >>]
    ELSE ParseLoop(ParseFieldWithLength, split(fields_str, ","), 1, << >>)

MaxFieldsStrLen == 5

FieldsStrLexemes == { "a", ":", ",", " ", "String" }

InitParse ==
    /\ pc = "call_parse"
    /\ fnIn \in SeqsUpTo(FieldsStrLexemes, MaxFieldsStrLen)
    /\ fnOut = << >>
    /\ spec = ProductSpec
    /\ lombok = FALSE
    /\ templatesDir = FullDir
    /\ placeholders = NoPlaceholders
    /\ nextArtifact = 0
    /\ rendered = {}
    /\ written = << >>
    /\ err = NoErr

CallParseFields ==
    /\ pc = "call_parse"
    /\ fnOut' = [fn |-> "parse_fields", out |-> parse_fields(fnIn)]
    /\ pc' = "returned"
    /\ UNCHANGED << spec, lombok, templatesDir, placeholders, nextArtifact, rendered,
                    written, err, fnIn >>

CallParseFieldsWithLength ==
    /\ pc = "call_parse"
    /\ fnOut' = [fn |-> "parse_fields_with_length", out |-> parse_fields_with_length(fnIn)]
    /\ pc' = "returned"
    /\ UNCHANGED << spec, lombok, templatesDir, placeholders, nextArtifact, rendered,
                    written, err, fnIn >>

NextParse ==
    \/ CallParseFields
    \/ CallParseFieldsWithLength

SpecParse == InitParse /\ [][NextParse]_vars

\* the (name, type) of each triple of a list
FirstTwo(triples) == [i \in 1..Len(triples) |-> SubSeq(triples[i], 1, 2)]

\* C29: parse_fields and parse_fields_with_length raise on the same inputs,
\* and on the others the pairs of the first are, in order, the first two
\* components of the triples of the second.
C29_ParsersAgree ==
    pc = "returned" =>
        LET pairs == IF fnOut.fn = "parse_fields" THEN fnOut.out
                     ELSE parse_fields(fnIn)
            triples == IF fnOut.fn = "parse_fields_with_length" THEN fnOut.out
                       ELSE parse_fields_with_length(fnIn)
        IN  /\ (pairs.raised # None) <=> (triples.raised # None)
            /\ pairs.raised = None =>
                  /\ pairs.fields = FirstTwo(triples.fields)
                  /\ \A i \in 1..Len(triples.fields) : Len(triples.fields[i]) = 3

\* parse_fields_with_length has returned a field with a length
C29_Witness ==
    /\ pc = "returned"
    /\ fnOut.fn = "parse_fields_with_length"
    /\ fnOut.out.raised = None
    /\ \E i \in 1..Len(fnOut.out.fields) : fnOut.out.fields[i][3] # None

(***************************************************************************)
(* The fields of the generated entity                                      *)
(***************************************************************************)
\* the types the claim calls registered
EntityFieldTypes ==
    { "String", "BigDecimal", "Long", "Integer", "Boolean", "LocalDate", "LocalDateTime" }

\* C26: for each field of the entity whose type is String, BigDecimal, Long,
\* Integer, Boolean, LocalDate or LocalDateTime, fromJson declares a local of
\* the field's declared type and passes it to the constructor at the field's
\* position, and update has a change-check block for the field.
C26_FieldsHandledUniformly ==
    (pc = "returned" /\ fnOut.fn = "generate_entity" /\ fnOut.out.raised = None) =>
        \A i \in 1..Len(fnIn.fields) :
            fnIn.fields[i].type \in EntityFieldTypes =>
                LET e == fnOut.out
                    f == fnIn.fields[i]
                IN  /\ e.declarations[i].type = f.type /\ e.declarations[i].name = f.name
                    /\ e.constructor_params[i] = [type |-> f.type, name |-> f.name]
                    /\ e.from_json[i].type = f.type /\ e.from_json[i].name = f.name
                    /\ e.from_json_args[i] = f.name
                    /\ \E k \in 1..Len(e.update_checks) : e.update_checks[k].field = f.name

(***************************************************************************)
(* generate_module.py main(): the eight steps of a module scaffold.  fnIn  *)
(* holds the arguments (--entity-name and --fields, --actions at its       *)
(* default), fnOut the locals `fields` and `lb_fields`, written the files  *)
(* in the order they were written, each with what its generator returned.  *)
(***************************************************************************)
\* a str of parse_fields as a key of the type tables
Tag(typ) == IF Len(typ) = 1 THEN typ[1] ELSE ""

\* the (name, type) pairs and (name, type, length) triples of the parsers as
\* the fields the generators iterate over; a pair has no length
FieldRecords(tuples) ==
    [i \in 1..Len(tuples) |->
        [name |-> tuples[i][1], type |-> Tag(tuples[i][2]),
         length |-> IF Len(tuples[i]) = 3 THEN tuples[i][3] ELSE None]]

\* a call write_file(output_dir, path, content) that main() is to make
File(path, content) == [path |-> path, content |-> content]

\* the generators whose text depends on the entity name and the package only
\* (generate_repository, generate_repository_wrapper, generate_not_found,
\* generate_cannot_be_deleted, generate_duplicate, generate_event,
\* generate_read_interface)
JavaClass(class_name) == [raised |-> None, text |-> << "public class " >> \o class_name]

\* generate_data_class, generate_data.py lines 13-39
generate_data_class(entity_name, fields) ==
    [raised |-> None,
     imports |-> collect_imports(fields),
     field_decls |-> << [type |-> "Long", name |-> << "i", "d" >>] >>
                     \o [i \in 1..Len(fields) |->
                            [type |-> fields[i].type, name |-> fields[i].name]]]

\* --actions at its default, line 107
DefaultActions == << create, update, delete >>

\* lines 67-72
Step1Files(e, fields) ==
    << File(<< "domain/" >> \o e \o << ".java" >>, generate_entity(e, fields)),
       File(<< "domain/" >> \o e \o << "Repository.java" >>, JavaClass(e \o << "Repository" >>)),
       File(<< "domain/" >> \o e \o << "RepositoryWrapper.java" >>,
            JavaClass(e \o << "RepositoryWrapper" >>)) >>

\* lines 77-85
Step2Files(e) ==
    [i \in 1..3 |->
        LET name == e \o << << "NotFoundException", "CannotBeDeletedException",
                               "DuplicateException" >>[i] >>
        IN  File(<< "exception/" >> \o name \o << ".java" >>, JavaClass(name))]

\* lines 90-94
Step3Files(e, fields) ==
    << File(<< "data/" >> \o e \o << "Data.java" >>, generate_data_class(e, fields)),
       File(<< "serialization/" >> \o e \o << "DataValidator.java" >>,
            generate_validator(e, fields)) >>

\* lines 99-102
Step4Files(e) ==
    [i \in 1..3 |->
        LET name == e \o << << "Created", "Updated", "Deleted" >>[i], "BusinessEvent" >>
        IN  File(<< "event/" >> \o name \o << ".java" >>, JavaClass(name))]

\* lines 107-117
Step5Files(e, actions) ==
    << File(<< "service/" >> \o e \o << "WritePlatformService.java" >>,
            generate_write_interface(e, actions)),
       File(<< "service/" >> \o e \o << "WritePlatformServiceImpl.java" >>,
            generate_write_impl(e, actions)) >>
    \o [i \in 1..Len(actions) |->
           File(<< "handler/" >> \o Capitalize(actions[i]) \o e \o << "CommandHandler.java" >>,
                generate_command_handler(e, actions[i]))]

\* lines 122-128
Step6Files(e, fields) ==
    << File(<< "service/" >> \o e \o << "ReadPlatformService.java" >>,
            JavaClass(e \o << "ReadPlatformService" >>)),
       File(<< "service/" >> \o e \o << "ReadPlatformServiceImpl.java" >>,
            generate_read_impl(e, BasePkg, fields, DefaultTableName(e), DefaultTableAlias(e))) >>

\* lines 133-134
Step7Files(e) ==
    << File(<< "api/" >> \o e \o << "ApiResource.java" >>,
            generate_api_resource(e, to_camel_case(e) \o << "s" >>)) >>

\* lines 141-145
Step8Files(e, lb_fields) ==
    << File(<< "db/changelog/tenant/parts/0001__create_" >> \o to_snake_case(e)
            \o << "_table.xml" >>,
            generate_liquibase(e, DefaultTableName(e), lb_fields, Author)) >>

\* the exception of a `raised` value, as the run's error
ExceptionOf(r) == [exc |-> r[1], msg |-> SubSeq(r, 3, Len(r))]

\* the write_file calls of one step, in order: the content of a call is
\* computed before the file is opened, so a generator that raises ends the
\* run with the files before it written; write_file itself raises OSError
\* when the directory or the file cannot be created
RunStep(files, next) ==
    \E n \in 0..Len(files) :
        /\ \A i \in 1..n : files[i].content.raised = None
        /\ written' = written \o SubSeq(files, 1, n)
        /\ IF n = Len(files) THEN pc' = next /\ err' = err
           ELSE /\ pc' = "failed"
                /\ err' = IF files[n + 1].content.raised # None
                          THEN ExceptionOf(files[n + 1].content.raised)
                          ELSE OSError(files[n + 1].path)

MaxModuleFields == 2

\* the pieces of --fields (none of them for --fields ""): name:String, name:String:100, price:BigDecimal,
\* " code : String : 40 ", name (no type) and :String (no name)
FieldsPiecePool ==
    { << "n", "a", "m", "e", ":", "String" >>,
      << "n", "a", "m", "e", ":", "String", ":", "1", "0", "0" >>,
      << "p", "r", "i", "c", "e", ":", "BigDecimal" >>,
      << " ", "c", "o", "d", "e", " ", ":", " ", "String", " ", ":", " ", "4", "0", " " >>,
      << "n", "a", "m", "e" >>,
      << ":", "String" >> }

ModuleFieldsPool ==
    { Join(<< "," >>, pieces) : pieces \in SeqsUpTo(FieldsPiecePool, MaxModuleFields) }

NoLocals == [fields |-> << >>, lb_fields |-> << >>]

InitModule ==
    /\ pc = "step1"
    /\ fnIn \in [entity_name : WriteEntityPool, fields_str : ModuleFieldsPool]
    /\ fnOut = NoLocals
    /\ spec = ProductSpec
    /\ lombok = FALSE
    /\ templatesDir = FullDir
    /\ placeholders = NoPlaceholders
    /\ nextArtifact = 0
    /\ rendered = {}
    /\ written = << >>
    /\ err = NoErr

\* lines 60-72: parse_fields, then the entity, repository and wrapper
Step1_Entity ==
    /\ pc = "step1"
    /\ LET parsed == parse_fields(fnIn.fields_str)
       IN  IF parsed.raised # None
           THEN /\ pc' = "failed"
                /\ err' = ExceptionOf(parsed.raised)
                /\ UNCHANGED << written, fnOut >>
           ELSE /\ fnOut' = [fnOut EXCEPT !.fields = FieldRecords(parsed.fields)]
                /\ RunStep(Step1Files(fnIn.entity_name, FieldRecords(parsed.fields)), "step2")
    /\ UNCHANGED << spec, lombok, templatesDir, placeholders, nextArtifact, rendered, fnIn >>

\* lines 74-85
Step2_Exceptions ==
    /\ pc = "step2"
    /\ RunStep(Step2Files(fnIn.entity_name), "step3")
    /\ UNCHANGED << spec, lombok, templatesDir, placeholders, nextArtifact, rendered,
                    fnIn, fnOut >>

\* lines 87-94
Step3_Data ==
    /\ pc = "step3"
    /\ RunStep(Step3Files(fnIn.entity_name, fnOut.fields), "step4")
    /\ UNCHANGED << spec, lombok, templatesDir, placeholders, nextArtifact, rendered,
                    fnIn, fnOut >>

\* lines 96-102
Step4_Events ==
    /\ pc = "step4"
    /\ RunStep(Step4Files(fnIn.entity_name), "step5")
    /\ UNCHANGED << spec, lombok, templatesDir, placeholders, nextArtifact, rendered,
                    fnIn, fnOut >>

\* lines 104-117
Step5_WriteService ==
    /\ pc = "step5"
    /\ RunStep(Step5Files(fnIn.entity_name, DefaultActions), "step6")
    /\ UNCHANGED << spec, lombok, templatesDir, placeholders, nextArtifact, rendered,
                    fnIn, fnOut >>

\* lines 119-128
Step6_ReadService ==
    /\ pc = "step6"
    /\ RunStep(Step6Files(fnIn.entity_name, fnOut.fields), "step7")
    /\ UNCHANGED << spec, lombok, templatesDir, placeholders, nextArtifact, rendered,
                    fnIn, fnOut >>

\* lines 130-134
Step7_ApiResource ==
    /\ pc = "step7"
    /\ RunStep(Step7Files(fnIn.entity_name), "step8")
    /\ UNCHANGED << spec, lombok, templatesDir, placeholders, nextArtifact, rendered,
                    fnIn, fnOut >>

\* lines 136-145: parse_fields_with_length on the same str, then the
\* changelog
Step8_Liquibase ==
    /\ pc = "step8"
    /\ LET parsed == parse_fields_with_length(fnIn.fields_str)
       IN  IF parsed.raised # None
           THEN /\ pc' = "failed"
                /\ err' = ExceptionOf(parsed.raised)
                /\ UNCHANGED << written, fnOut >>
           ELSE /\ fnOut' = [fnOut EXCEPT !.lb_fields = FieldRecords(parsed.fields)]
                /\ RunStep(Step8Files(fnIn.entity_name, FieldRecords(parsed.fields)), "done")
    /\ UNCHANGED << spec, lombok, templatesDir, placeholders, nextArtifact, rendered, fnIn >>

NextModule ==
    \/ Step1_Entity
    \/ Step2_Exceptions
    \/ Step3_Data
    \/ Step4_Events
    \/ Step5_WriteService
    \/ Step6_ReadService
    \/ Step7_ApiResource
    \/ Step8_Liquibase

SpecModule == InitModule /\ [][NextModule]_vars

\* what the generator returned for the file main() wrote at this path
ContentAt(path) == written[CHOOSE i \in 1..Len(written) : written[i].path = path].content

EntityFile == ContentAt(Step1Files(fnIn.entity_name, fnOut.fields)[1].path)
ValidatorFile == ContentAt(Step3Files(fnIn.entity_name, fnOut.fields)[2].path)
ChangelogFile == ContentAt(Step8Files(fnIn.entity_name, fnOut.lb_fields)[1].path)

\* the validation of the i-th field among the validations of the validator
ValidationOf(i) ==
    ValidatorFile.validations[Cardinality({ j \in 1..i : HasValidation(fnOut.fields[j]) })]

\* C27: in a generated module the length bound of each String field is the
\* same in the entity's @Column, in the changelog's VARCHAR(n) and in the
\* validator's notExceedingLengthOf, with and without a declared length.
C27_StringLengthAgrees ==
    pc = "done" =>
        \A i \in 1..Len(fnOut.fields) :
            fnOut.fields[i].type = "String" =>
                LET inEntity == Between(EntityFile.declarations[i].annotation,
                                        ", length = ", ")")
                    inChangelog == TypeAttr(ChangelogFile.columns_xml[i + 1])
                    inValidator == Between(ValidationOf(i).checks,
                                           ".notExceedingLengthOf(", ")")
                IN  /\ inChangelog = << "VARCHAR(" >> \o inEntity \o << ")" >>
                    /\ inValidator = inEntity

\* the exceptions a --fields str can make the run raise
FieldsErrors == { "ValueError", "IndexError" }

\* C28: in generate_module, a --fields str that cannot be parsed makes the
\* run fail before the first file is written; once a file has been written
\* no step fails because of the --fields str, the second parse of step 8
\* included.
C28_FieldsFailureBeforeFirstWrite ==
    /\ (parse_fields(fnIn.fields_str).raised # None /\ pc # "step1") =>
          pc = "failed" /\ written = << >> /\ err.exc = "ValueError"
    /\ (pc = "failed" /\ err.exc \in FieldsErrors) => written = << >>
    /\ (pc = "done") =>
          /\ parse_fields_with_length(fnIn.fields_str).raised = None
          /\ Len(fnOut.lb_fields) = Len(fnOut.fields)

\* the run has stopped on the second piece of --fields, which has no colon
C28_Witness ==
    /\ pc = "failed"
    /\ err.exc = "ValueError"
    /\ written = << >>
    /\ Len(split(fnIn.fields_str, ",")) = 2
    /\ parse_fields(split(fnIn.fields_str, ",")[1]).raised = None

(***************************************************************************)
(* The table name of an entity name that validation accepts                *)
(***************************************************************************)
\* the text has two underscores next to each other
DoubleUnderscore(t) == \E i \in 1..(Len(t) - 1) : t[i] = "_" /\ t[i + 1] = "_"

\* C30: for an entity name that matches ^[A-Z][A-Za-z0-9_]*$ the table name
\* has only lowercase letters, digits and underscores, neither starts nor
\* ends with an underscore the name does not start or end with, and has two
\* underscores side by side only if the name has.
C30_TableNameWellFormed ==
    (/\ pc = "returned"
     /\ fnOut.fn = "camel_to_snake"
     /\ EntityPatternMatches(fnIn)) =>
        LET table_name == fnOut.out
        IN  /\ Range(table_name) \subseteq LowerChars \cup DigitChars \cup { "_" }
            /\ table_name[1] # "_"
            /\ table_name[Len(table_name)] = "_" => fnIn[Len(fnIn)] = "_"
            /\ DoubleUnderscore(table_name) => DoubleUnderscore(fnIn)

====
